---- MODULE Spec2Model ----
(***************************************************************************)
(* WaveRunner (src/main.py): the simulation step Game.update, the input    *)
(* handler Game.handle_events and the entities they drive.                 *)
(*                                                                         *)
(* Number representation.  The program computes with Python floats; the    *)
(* model computes with integers in fixed units:                            *)
(*   time        1 unit = 1/60 s, a frame at FPS (dt, timers, runtime)     *)
(*   length      1 unit = 1 pixel  (radii, and the coordinates the step    *)
(*               recomputes from the wave: Enemy.y, Buoy.x, Buoy.y,        *)
(*               SpecialCatch.y, Pulse.x, Pulse.y)                         *)
(*   coordinates the step integrates (Player.y, Enemy.x, Harpoon.x,        *)
(*               Harpoon.y, Pulse.r, Buoy.base_x, SpecialCatch.x)          *)
(*               1 unit = 1/SUB pixel; Px gives their whole pixels         *)
(*   player.vy   1 unit = 1/100 pixel per frame                            *)
(*   enemy speed 1 unit = 1/1000 pixel per frame                           *)
(*   angles      1 unit = 1/1000 rad; Game.phase 1 unit = 1/60000 rad,     *)
(*               Buoy.phase 1 unit = 1/3000 rad                            *)
(*   pulse_energy 1 unit = 1/15 energy point                               *)
(*   score       1 unit = 1/750 point                                      *)
(* so that every constant of the program is a whole number of units.       *)
(* Values drawn by `random` and read from the wall clock are inputs of the *)
(* step (the record rnd).  Drawing, sound, particles, combo popups, the    *)
(* wave mesh, spawner_phase and high_score do not influence the simulation *)
(* and are left out.                                                       *)
(***************************************************************************)
EXTENDS Integers, Sequences, FiniteSets, TLC

VARIABLES state, state_timer, paused,
          pending_shot, pending_pulse, pending_special, jump_request, space_age,
          player, enemies, harpoons, pulses, special_catches, buoy,
          awaiting_buoy, stage, kills_this_stage, stage_goal,
          spawn_interval, spawn_timer, shoot_timer, pulse_energy, special_stock,
          runtime, phase, stage_banner_timer,
          ev, frame

vars == <<state, state_timer, paused,
          pending_shot, pending_pulse, pending_special, jump_request, space_age,
          player, enemies, harpoons, pulses, special_catches, buoy,
          awaiting_buoy, stage, kills_this_stage, stage_goal,
          spawn_interval, spawn_timer, shoot_timer, pulse_energy, special_stock,
          runtime, phase, stage_banner_timer,
          ev, frame>>

-----------------------------------------------------------------------------
(* Program constants, in the units above.                                  *)

WIDTH == 960
WATERLINE == 335
BASE_AMPLITUDE == 46
AMPLITUDE_SWAY == 30
WAVELENGTH == 220
WAVE_SPEED == 950
PLAYER_RADIUS == 14
ENEMY_SPAWN_EVERY == 75
ENEMY_RADIUS == 14
PULSE_RADIUS_MAX == 260
PULSE_ENERGY_MAX == 1500
PULSE_GAIN_ON_HIT == 420
HARPOON_SPEED == 620
HARPOON_COOLDOWN == 27
HARPOON_RADIUS == 6
BUOY_DRIFT_SPEED == 36
SPECIAL_MAX_STOCK == 5
STARTING_HEALTH == 3
IFRAME_DURATION == 60
COMBO_MAX == 99
COMBO_IDLE == 240
INTRO_DURATION == 150
MAX_STAGE == 10
STRIKE_MAX == 4
BANNER_START == 180
BANNER_STAGE == 192
ANCHOR_X == 288
OFFSCREEN_X == 40
ENEMY_WARNING == 24
PULSE_GROWTH == 320
SPAWN_STEP == 6
SPAWN_FLOOR == 30
SPAWN_FLOOR_LATE == 27
DOUBLE_TAP_WINDOW == 16
SCORE_UNIT == 750
FPS == 60

-----------------------------------------------------------------------------
(* Arithmetic helpers.                                                     *)

Abs(a) == IF a < 0 THEN -a ELSE a
Min(a, b) == IF a < b THEN a ELSE b
Max(a, b) == IF a > b THEN a ELSE b

(* Division rounding toward zero, so that a product scaled down keeps the  *)
(* sign symmetry the float computation has.                                *)
Quot(a, b) == IF a >= 0 THEN a \div b ELSE -((-a) \div b)

PI == 3142
TWO_PI == 6283

(* math.sin of an angle in 1/1000 rad, times 1000 (Bhaskara's rational     *)
(* approximation on a half period, odd symmetry on the other half).        *)
HalfSine(m) == (16 * m * (PI - m)) \div ((5 * PI * PI - 4 * m * (PI - m)) \div 1000)

Sin(a) ==
    LET m == a % TWO_PI
    IN  IF m <= PI THEN HalfSine(m) ELSE -HalfSine(Min(m - PI, PI))

(* The element of a singleton set.  An intermediate value v of a step is   *)
(* bound as x in {F(x) : x \in {v}}, which computes v once however often F *)
(* reads it.                                                               *)
Only(S) == CHOOSE r \in S : TRUE

(* lerp(a, b, t) for t = n / d *)
lerp(a, b, n, d) == a + Quot((b - a) * n, d)

SUB == 50 * FPS

Px(v) == v \div SUB

(* generate_wave_y(x, phase, t): three sine layers on the waterline, the   *)
(* amplitude breathing with t.                                             *)
generate_wave_y(x, ph, t) ==
    LET kx   == (TWO_PI * x) \div WAVELENGTH
        p    == ph \div 60
        a10  == 10 * BASE_AMPLITUDE + Quot(AMPLITUDE_SWAY * (5000 + 5 * Sin(5 * t)), 1000)
        s1   == Sin(kx + p)
        s2   == Sin(kx \div 2 - (7 * p) \div 10 + 10 * t)
        s3   == Sin((17 * kx) \div 10 + (19 * p) \div 10)
        comb == Quot(1000 * s1 + 330 * s2 + 120 * s3, 1000)
    IN  WATERLINE + Quot(a10 * comb, 10000)

-----------------------------------------------------------------------------
(* Entities.                                                               *)

(* Pulse(x, y) and Pulse.update *)
Pulse(x, y) == [x |-> x, y |-> y, r |-> 0, alive |-> TRUE]

(* Pulse.update with the pulse dying as soon as it reaches the maximum     *)
(* radius.                                                                 *)
Pulse_update_rimless(p, dt) ==
    LET r == p.r + (PULSE_GROWTH * dt * SUB) \div FPS
    IN  [p EXCEPT !.r = r, !.alive = IF r >= PULSE_RADIUS_MAX * SUB THEN FALSE ELSE @]

Pulse_update(p, dt) ==
    LET r == p.r + (PULSE_GROWTH * dt * SUB) \div FPS
    IN  [p EXCEPT !.r = r, !.alive = IF r > PULSE_RADIUS_MAX * SUB THEN FALSE ELSE @]

(* Harpoon(x, y, direction) and Harpoon.update; the player always faces    *)
(* right, so direction is 1.  ticks is the wall-clock term of the bob.     *)
Harpoon(x, y) == [x |-> x, y |-> y, alive |-> TRUE]

Harpoon_update(h, dt, ticks) ==
    LET x == h.x + (HARPOON_SPEED * dt * SUB) \div FPS
        y == h.y + Quot(Sin(ticks + 10 * Px(x)) * 10 * dt * SUB, 1000 * FPS)
    IN  [h EXCEPT !.x = x, !.y = y,
                  !.alive = IF x < -60 * SUB \/ x > (WIDTH + 60) * SUB THEN FALSE ELSE @]

(* Enemy(x, speed, variant); wave_offset is drawn at construction.         *)
Enemy(x, speed, variant, wave_offset) ==
    [x |-> x, y |-> WATERLINE, speed |-> speed, variant |-> variant,
     alive |-> TRUE, t |-> 0, warning |-> ENEMY_WARNING, wave_offset |-> wave_offset]

ChargerSpeed(speed) == (speed * 1005) \div 1000

Enemy_update(e, dt, ph, t) ==
    LET et     == e.t + dt
        x      == e.x - (e.speed * dt * SUB) \div 1000
        wave_y == generate_wave_y(Px(x), ph, t)
        hop    == Quot(Sin((170 * et) \div 3) * 30 * Max(0, 30 - e.warning), 30000)
        rise   == CASE e.variant = "hopper"  -> -6 - hop
                    [] e.variant = "diver"   -> -6 + Quot(Sin((110 * et) \div 3 + 1200) * 18, 1000)
                    [] e.variant = "charger" -> -12 + Quot(Sin(100 * et + e.wave_offset) * 6, 1000)
                    [] OTHER                 -> -6
    IN  [e EXCEPT !.t = et, !.x = x, !.y = wave_y + rise,
                  !.speed = IF e.variant = "charger" THEN ChargerSpeed(@) ELSE @,
                  !.alive = IF x < -OFFSCREEN_X * SUB THEN FALSE ELSE @,
                  !.warning = IF @ > 0 THEN @ - dt ELSE @]

(* Enemy.hit_by_pulse *)
hit_by_pulse(e, p) ==
    /\ p.alive
    /\ (Px(e.x) - p.x) * (Px(e.x) - p.x) + (e.y - p.y) * (e.y - p.y)
          <= (Px(p.r) + ENEMY_RADIUS) * (Px(p.r) + ENEMY_RADIUS)

(* Player() followed by snap_to_wave(0, 0), as Game.reset leaves it; the   *)
(* player stays on its anchor and faces right.                             *)
Player ==
    [y |-> (generate_wave_y(ANCHOR_X, 0, 0) - 22) * SUB, vy |-> 0,
     health |-> STARTING_HEALTH, iframes |-> 0, score |-> 0,
     combo |-> 0, best_combo |-> 0, last_combo_time |-> 0]

(* Player.update toward the wave height target under the player: the       *)
(* spring, the snap onto the wave, the timers and the score over time.     *)
Player_follow(p, dt, target) ==
    LET delta  == target * 100 - p.y \div (SUB \div 100)
        vy     == Quot((p.vy + Quot(delta * 12, 100)) * 88, 100)
        y      == p.y + vy * dt * (SUB \div 100)
        snap   == Abs(delta) < 40 /\ Abs(vy) < 15
    IN  [p EXCEPT !.y = IF snap THEN target * SUB ELSE y,
                  !.vy = IF snap THEN 0 ELSE vy,
                  !.iframes = IF @ > 0 THEN @ - dt ELSE @,
                  !.score = @ + dt * (50 + p.combo),
                  !.last_combo_time = @ + dt]

(* Player.update; the jump request it is handed is not read.              *)
Player_update(p, dt, ph, t, jump) ==
    Player_follow(p, dt, generate_wave_y(ANCHOR_X, ph, t) - 22)

(* Player.damage without the iframes test: every contact costs health.    *)
Player_damage_unguarded(p) ==
    [p EXCEPT !.health = @ - 1, !.iframes = IFRAME_DURATION,
              !.combo = 0, !.last_combo_time = 0]

(* Player.damage with iframes of half the duration. *)
Player_damage_brief(p) ==
    IF p.iframes <= 0
    THEN [p EXCEPT !.health = @ - 1, !.iframes = IFRAME_DURATION \div 2,
                   !.combo = 0, !.last_combo_time = 0]
    ELSE p

Player_damage(p) ==
    IF p.iframes <= 0
    THEN [p EXCEPT !.health = @ - 1, !.iframes = IFRAME_DURATION,
                   !.combo = 0, !.last_combo_time = 0]
    ELSE p

reward_combo(p, amount) ==
    LET c == Min(COMBO_MAX, p.combo + amount)
    IN  [p EXCEPT !.combo = c, !.best_combo = Max(@, c), !.last_combo_time = 0]

(* Buoy(x, y, target_x); phase is drawn at construction.                   *)
Buoy(x, y, target_x, ph0) ==
    [base_x |-> x * SUB, x |-> x, y |-> y, target_x |-> target_x, phase |-> ph0]

Buoy_update(b, dt, ph, t) ==
    LET bp        == b.phase + 80 * dt
        direction == IF b.base_x > b.target_x THEN -1 ELSE 1
        moved     == b.base_x + direction * ((BUOY_DRIFT_SPEED * dt * SUB) \div FPS)
        base_x    == lerp(moved, b.target_x * SUB, 2 * dt, 5 * FPS)
        x         == Px(base_x) + Quot(Sin((7 * bp) \div 30) * 22, 1000)
        crest     == generate_wave_y(x, ph, t) + Quot(Sin((18 * (50 * t + bp)) \div 30) * 6, 1000)
        y         == crest - 30 + Quot(Sin((15 * bp) \div 30) * 5, 1000)
    IN  [b EXCEPT !.phase = bp, !.base_x = base_x, !.x = x, !.y = y]

Buoy_collected_by(b, px, py) ==
    (px - b.x) * (px - b.x) + (py + 10 - b.y) * (py + 10 - b.y) <= 40 * 40

(* SpecialCatch(x, y); phase and float_offset are drawn at construction.   *)
SpecialCatch(x, y, ph0, float_offset) ==
    [x |-> x, y |-> y, phase |-> ph0, float_offset |-> float_offset, collected |-> FALSE]

SpecialCatch_update(c, dt, ph, t, target_x) ==
    LET cp == c.phase + 40 * dt
        x  == c.x + Quot((target_x * SUB - c.x) * 2 * dt, FPS)
        y  == generate_wave_y(Px(x), ph, t) - 26 + Quot(Sin(cp) * 8, 1000) + c.float_offset
    IN  [c EXCEPT !.phase = cp, !.x = x, !.y = y]

(* SpecialCatch.collected_by sets the flag and returns it; the model       *)
(* returns the catch after the call, and CatchTaken for the returned value. *)
SpecialCatch_collected_by(c, px, py) ==
    IF c.collected THEN c
    ELSE [c EXCEPT !.collected =
             (px - Px(c.x)) * (px - Px(c.x)) + (py - 8 - c.y) * (py - 8 - c.y) <= 26 * 26]

CatchTaken(c, px, py) ==
    ~c.collected /\ SpecialCatch_collected_by(c, px, py).collected

-----------------------------------------------------------------------------
(* Game.  A game value g is the record of the Game object's fields.        *)

NoBuoy == <<>>
NoJump == "none"

goal_for_stage(s) == 8 + s * 4

(* What the last step did: a history record for stating properties.        *)
(*   ran          the simulation part of update ran (gameplay, not paused) *)
(*   dt           the step's dt                                            *)
(*   intents      an intent was pending when the step began                *)
(*   shot, pulse, special, jump   the intents pending when the step began  *)
(*   fired        harpoons the step added to the harpoons collection       *)
(*   pulsed       pulses the pulse intent of the step created              *)
(*   spawned      enemies the wave spawn of the step created               *)
(*   dropped      special catches the kills of the collision pass dropped  *)
(*   caught       special catches the player collected                     *)
(*   dead_updated number of enemies updated while their alive flag was off *)
(*   pre          per enemy of the collision pass: alive at its start, and *)
(*                whether it overlapped the player, a live harpoon, a live *)
(*                pulse at that moment                                     *)
(*   hits         per enemy of the collision pass: the outcomes applied    *)
(*   spent        live harpoons the collision pass cleared                 *)
(*   damaged      Player.damage lowered health                             *)
(*   armed        the buoy gate was armed                                  *)
(*   buoy_hit     the buoy existed and the player collected it             *)
(*   advanced     _advance_stage changed the stage                         *)
(*   strike       _trigger_special_strike was called                       *)
(*   strike_kills enemies it cleared                                       *)
(*   idle         last_combo_time when the decay was decided               *)
(*   decayed      the idle decay lowered combo                             *)
(*   reset        for a reset: the state it was issued in ("paused" when   *)
(*                the pause flag was set), otherwise "no"                  *)
(* The variable frame counts the calls of update, to bound the runs.       *)
EvNone ==
    [ran |-> FALSE, dt |-> 0, intents |-> FALSE,
     shot |-> FALSE, pulse |-> FALSE, special |-> FALSE, jump |-> NoJump, fired |-> 0, pulsed |-> 0,
     spawned |-> 0, dropped |-> 0, caught |-> 0,
     dead_updated |-> 0, pre |-> <<>>, hits |-> <<>>,
     spent |-> 0, damaged |-> FALSE, armed |-> FALSE, buoy_hit |-> FALSE, advanced |-> FALSE,
     strike |-> FALSE, strike_kills |-> 0, idle |-> 0, decayed |-> FALSE, reset |-> "no"]

(* Game.__init__ followed by Game.reset *)
NewGame ==
    [state |-> "intro", state_timer |-> 0, paused |-> FALSE,
     pending_shot |-> FALSE, pending_pulse |-> FALSE, pending_special |-> FALSE,
     jump_request |-> NoJump, space_age |-> DOUBLE_TAP_WINDOW + 1,
     player |-> Player, enemies |-> <<>>, harpoons |-> <<>>, pulses |-> <<>>,
     special_catches |-> <<>>, buoy |-> NoBuoy, awaiting_buoy |-> FALSE,
     stage |-> 1, kills_this_stage |-> 0, stage_goal |-> goal_for_stage(1),
     spawn_interval |-> ENEMY_SPAWN_EVERY, spawn_timer |-> 0, shoot_timer |-> 0,
     pulse_energy |-> (PULSE_ENERGY_MAX * 6) \div 10, special_stock |-> 0,
     runtime |-> 0, phase |-> 0, stage_banner_timer |-> BANNER_START]

(* Sequence helpers: map and stable filter.                                *)
SelectAlive(s) == SelectSeq(s, LAMBDA e : e.alive)
SelectUncollected(s) == SelectSeq(s, LAMBDA c : ~c.collected)

(* Game.spawn_enemy_wave: rnd.n enemies, rnd.spacing apart, from x =       *)
(* WIDTH + 50, each with speed base * speed_boost * jitter.                *)
WaveSizeMax(s) == 4 + Min(s, 12) \div 2

spawn_enemy_wave(g, rnd) ==
    LET stage_factor == Min(g.stage, 12)
        speed_boost  == 900 + (stage_factor - 1) * 80
        base_speed   == (rnd.base * speed_boost) \div 1000
        wave == [i \in 1..rnd.n |->
                    Enemy((WIDTH + 50 + (i - 1) * rnd.spacing) * SUB,
                          (base_speed * rnd.jitter[i]) \div 1000,
                          rnd.variants[i], rnd.wave_offset)]
    IN  [g EXCEPT !.enemies = @ \o wave]

(* Game.fire_harpoon *)
fire_harpoon(g) ==
    [g EXCEPT !.harpoons = Append(@, Harpoon((ANCHOR_X + PLAYER_RADIUS + 14) * SUB, g.player.y - 8 * SUB)),
              !.shoot_timer = HARPOON_COOLDOWN]

(* _check_stage_progression variants.  rush: the quota itself advances the *)
(* stage.  unclamped: the counter is left as counted.  late: the gate is   *)
(* armed only past the quota.                                              *)
check_stage_progression_rush(g, rnd) ==
    IF g.stage >= MAX_STAGE
    THEN [g EXCEPT !.spawn_interval = Max(SPAWN_FLOOR_LATE, ENEMY_SPAWN_EVERY - SPAWN_STEP * 9),
                   !.kills_this_stage = Min(@, g.stage_goal)]
    ELSE IF g.awaiting_buoy
    THEN [g EXCEPT !.kills_this_stage = Min(@, g.stage_goal)]
    ELSE IF g.kills_this_stage >= g.stage_goal
    THEN [g EXCEPT !.stage = @ + 1, !.kills_this_stage = 0,
                   !.stage_goal = goal_for_stage(g.stage + 1),
                   !.stage_banner_timer = BANNER_STAGE]
    ELSE g

check_stage_progression_unclamped(g, rnd) ==
    IF g.stage >= MAX_STAGE
    THEN [g EXCEPT !.spawn_interval = Max(SPAWN_FLOOR_LATE, ENEMY_SPAWN_EVERY - SPAWN_STEP * 9)]
    ELSE IF g.awaiting_buoy
    THEN g
    ELSE IF g.kills_this_stage >= g.stage_goal
    THEN LET buoy_x == (WIDTH * 3) \div 4 + rnd.buoy_dx
             buoy_y == generate_wave_y(buoy_x, g.phase, g.runtime) - 30
         IN  [g EXCEPT !.buoy = <<Buoy(buoy_x, buoy_y, ANCHOR_X, 3 * rnd.buoy_phase)>>,
                       !.awaiting_buoy = TRUE,
                       !.stage_banner_timer = BANNER_STAGE]
    ELSE g

check_stage_progression_late(g, rnd) ==
    IF g.stage >= MAX_STAGE
    THEN [g EXCEPT !.spawn_interval = Max(SPAWN_FLOOR_LATE, ENEMY_SPAWN_EVERY - SPAWN_STEP * 9),
                   !.kills_this_stage = Min(@, g.stage_goal)]
    ELSE IF g.awaiting_buoy
    THEN [g EXCEPT !.kills_this_stage = Min(@, g.stage_goal)]
    ELSE IF g.kills_this_stage > g.stage_goal
    THEN LET buoy_x == (WIDTH * 3) \div 4 + rnd.buoy_dx
             buoy_y == generate_wave_y(buoy_x, g.phase, g.runtime) - 30
         IN  [g EXCEPT !.kills_this_stage = g.stage_goal,
                       !.buoy = <<Buoy(buoy_x, buoy_y, ANCHOR_X, 3 * rnd.buoy_phase)>>,
                       !.awaiting_buoy = TRUE,
                       !.stage_banner_timer = BANNER_STAGE]
    ELSE g

(* _check_stage_progression without its first branch: the quota arms the   *)
(* gate at every stage.                                                    *)
check_stage_progression_endless(g, rnd) ==
    IF g.awaiting_buoy
    THEN [g EXCEPT !.kills_this_stage = Min(@, g.stage_goal)]
    ELSE IF g.kills_this_stage >= g.stage_goal
    THEN LET buoy_x == (WIDTH * 3) \div 4 + rnd.buoy_dx
             buoy_y == generate_wave_y(buoy_x, g.phase, g.runtime) - 30
         IN  [g EXCEPT !.kills_this_stage = g.stage_goal,
                       !.buoy = <<Buoy(buoy_x, buoy_y, ANCHOR_X, 3 * rnd.buoy_phase)>>,
                       !.awaiting_buoy = TRUE,
                       !.stage_banner_timer = BANNER_STAGE]
    ELSE g

(* Game._check_stage_progression *)
check_stage_progression(g, rnd) ==
    IF g.stage >= MAX_STAGE
    THEN [g EXCEPT !.spawn_interval = Max(SPAWN_FLOOR_LATE, ENEMY_SPAWN_EVERY - SPAWN_STEP * 9),
                   !.kills_this_stage = Min(@, g.stage_goal)]
    ELSE IF g.awaiting_buoy
    THEN [g EXCEPT !.kills_this_stage = Min(@, g.stage_goal)]
    ELSE IF g.kills_this_stage >= g.stage_goal
    THEN LET buoy_x == (WIDTH * 3) \div 4 + rnd.buoy_dx
             buoy_y == generate_wave_y(buoy_x, g.phase, g.runtime) - 30
         IN  [g EXCEPT !.kills_this_stage = g.stage_goal,
                       !.buoy = <<Buoy(buoy_x, buoy_y, ANCHOR_X, 3 * rnd.buoy_phase)>>,
                       !.awaiting_buoy = TRUE,
                       !.stage_banner_timer = BANNER_STAGE]
    ELSE g

(* _advance_stage leaving the collected buoy in place. *)
advance_stage_littering(g) ==
    IF ~g.awaiting_buoy THEN g
    ELSE [g EXCEPT !.awaiting_buoy = FALSE,
                   !.stage = @ + 1, !.kills_this_stage = 0,
                   !.stage_goal = goal_for_stage(g.stage + 1),
                   !.stage_banner_timer = BANNER_STAGE,
                   !.spawn_interval = Max(SPAWN_FLOOR, ENEMY_SPAWN_EVERY - SPAWN_STEP * g.stage)]

(* Game._advance_stage *)
advance_stage(g) ==
    IF ~g.awaiting_buoy THEN g
    ELSE [g EXCEPT !.awaiting_buoy = FALSE, !.buoy = NoBuoy,
                   !.stage = @ + 1, !.kills_this_stage = 0,
                   !.stage_goal = goal_for_stage(g.stage + 1),
                   !.stage_banner_timer = BANNER_STAGE,
                   !.spawn_interval = Max(SPAWN_FLOOR, ENEMY_SPAWN_EVERY - SPAWN_STEP * g.stage)]

(* Game._maybe_spawn_special: roll is random.random() <= SPECIAL_CATCH_CHANCE *)
maybe_spawn_special(g, x, y, roll, rnd) ==
    IF Len(g.special_catches) >= SPECIAL_MAX_STOCK \/ ~roll THEN g
    ELSE [g EXCEPT !.special_catches =
             Append(@, SpecialCatch(x, y - 10, rnd.catch_phase, rnd.catch_offset))]

-----------------------------------------------------------------------------
(* Game.update, in the order of its statements.  The collision pass and    *)
(* the special strike thread a context c = [g, ev, k]: the game, the       *)
(* history record and the number of random rolls drawn so far.             *)

Roll(rnd, k) == k <= Len(rnd.rolls) /\ rnd.rolls[k]

(* Squared distance; separations beyond FAR px all compare alike with the   *)
(* radii of the game, the largest of which is PULSE_RADIUS_MAX.            *)
FAR == 4 * WIDTH

Dist2(ax, ay, bx, by) ==
    LET dx == Min(FAR, Abs(ax - bx))
        dy == Min(FAR, Abs(ay - by))
    IN  dx * dx + dy * dy

TouchesPlayer(e, p) ==
    Dist2(Px(e.x), e.y, ANCHOR_X, Px(p.y))
        <= (ENEMY_RADIUS + PLAYER_RADIUS) * (ENEMY_RADIUS + PLAYER_RADIUS)

TouchesHarpoon(e, h) ==
    Dist2(Px(e.x), e.y, Px(h.x), Px(h.y))
        <= (ENEMY_RADIUS + HARPOON_RADIUS) * (ENEMY_RADIUS + HARPOON_RADIUS)

(* The pulse intent served whatever the pulse energy. *)
StepWeapons_overcharged(g, dt) ==
    LET a == [g EXCEPT !.runtime = @ + dt, !.phase = @ + WAVE_SPEED * dt,
                       !.shoot_timer = Max(0, @ - dt)]
        b == IF a.pending_shot /\ a.shoot_timer <= 0 THEN fire_harpoon(a) ELSE a
        c == [b EXCEPT !.pending_shot = FALSE,
                       !.pulse_energy = Min(PULSE_ENERGY_MAX, @ + 2 * dt)]
        d == IF c.pending_pulse
             THEN [c EXCEPT !.pulses = Append(@, Pulse(ANCHOR_X, Px(c.player.y))),
                            !.pulse_energy = 0]
             ELSE c
    IN  [d EXCEPT !.pending_pulse = FALSE]

(* lines 690-705: clocks, harpoon cooldown and fire, pulse energy and pulse *)
StepWeapons(g, dt) ==
    LET a == [g EXCEPT !.runtime = @ + dt, !.phase = @ + WAVE_SPEED * dt,
                       !.shoot_timer = Max(0, @ - dt)]
        b == IF a.pending_shot /\ a.shoot_timer <= 0 THEN fire_harpoon(a) ELSE a
        c == [b EXCEPT !.pending_shot = FALSE,
                       !.pulse_energy = Min(PULSE_ENERGY_MAX, @ + 2 * dt)]
        d == IF c.pending_pulse /\ c.pulse_energy >= PULSE_ENERGY_MAX
             THEN [c EXCEPT !.pulses = Append(@, Pulse(ANCHOR_X, Px(c.player.y))),
                            !.pulse_energy = 0]
             ELSE c
    IN  [d EXCEPT !.pending_pulse = FALSE]

(* lines 710-717: the player, then the spawn timer and the wave spawn *)
StepSpawn(g, rnd) ==
    IF g.spawn_timer >= g.spawn_interval
    THEN spawn_enemy_wave([g EXCEPT !.spawn_timer = 0], rnd)
    ELSE g

StepPlayerAndSpawn(g, dt, rnd) ==
    StepSpawn([g EXCEPT !.player = Player_update(@, dt, g.phase, g.runtime, g.jump_request),
                        !.jump_request = NoJump,
                        !.spawn_timer = @ + dt], rnd)

(* lines 719-732: every entity of every collection is updated, whatever    *)
(* its alive flag                                                          *)
StepEntities(g, dt, rnd) ==
    [g EXCEPT !.enemies = [i \in 1..Len(@) |-> Enemy_update(@[i], dt, g.phase, g.runtime)],
              !.pulses = [i \in 1..Len(@) |-> Pulse_update(@[i], dt)],
              !.harpoons = [i \in 1..Len(@) |-> Harpoon_update(@[i], dt, rnd.ticks)],
              !.buoy = [i \in 1..Len(@) |-> Buoy_update(@[i], dt, g.phase, g.runtime)],
              !.special_catches =
                  [i \in 1..Len(@) |-> SpecialCatch_update(@[i], dt, g.phase, g.runtime, ANCHOR_X)]]

DeadCount(s) == Cardinality({i \in 1..Len(s) : ~s[i].alive})

(* The facts of the collision pass, taken when it starts.                  *)
PassFacts(g) ==
    [i \in 1..Len(g.enemies) |->
        LET e == g.enemies[i]
        IN  [alive |-> e.alive,
             p |-> TouchesPlayer(e, g.player),
             h |-> \E j \in 1..Len(g.harpoons) :
                      g.harpoons[j].alive /\ TouchesHarpoon(e, g.harpoons[j]),
             u |-> \E j \in 1..Len(g.pulses) : hit_by_pulse(e, g.pulses[j])]]

Mark(c, i, what) == [c.ev EXCEPT !.hits[i] = @ \cup {what}]

(* The contact with the game-over test one health point early. *)
ContactOutcome_early(c, i) ==
    LET p == Player_damage(c.g.player)
        g == [c.g EXCEPT !.player = p, !.enemies[i].alive = FALSE,
                         !.state = IF p.health <= 1 THEN "game_over" ELSE @]
    IN  [c EXCEPT !.g = g,
                  !.ev = [Mark(c, i, "contact") EXCEPT
                             !.damaged = @ \/ p.health < c.g.player.health]]

(* lines 739-746: the enemy touches the player *)
ContactOutcome(c, i) ==
    LET p == Player_damage(c.g.player)
        g == [c.g EXCEPT !.player = p, !.enemies[i].alive = FALSE,
                         !.state = IF p.health <= 0 THEN "game_over" ELSE @]
    IN  [c EXCEPT !.g = g,
                  !.ev = [Mark(c, i, "contact") EXCEPT
                             !.damaged = @ \/ p.health < c.g.player.health]]

(* The harpoon that hit left alive. *)
HarpoonOutcome_piercing(c, i, j, rnd) ==
    LET e  == c.g.enemies[i]
        p0 == reward_combo(c.g.player, 1)
        p  == [p0 EXCEPT !.score = @ + SCORE_UNIT * (60 + 16 * p0.combo)]
        a  == [c.g EXCEPT !.enemies[i].alive = FALSE, !.player = p,
                          !.pulse_energy = Min(PULSE_ENERGY_MAX, @ + PULSE_GAIN_ON_HIT),
                          !.kills_this_stage = @ + 1]
        b  == maybe_spawn_special(a, e.x, e.y, Roll(rnd, c.k + 1), rnd)
    IN  [g |-> check_stage_progression(b, rnd), ev |-> Mark(c, i, "harpoon"), k |-> c.k + 1]

(* lines 753-766: harpoon j hits enemy i *)
HarpoonOutcome(c, i, j, rnd) ==
    LET e  == c.g.enemies[i]
        p0 == reward_combo(c.g.player, 1)
        p  == [p0 EXCEPT !.score = @ + SCORE_UNIT * (60 + 16 * p0.combo)]
        a  == [c.g EXCEPT !.enemies[i].alive = FALSE, !.harpoons[j].alive = FALSE,
                          !.player = p,
                          !.pulse_energy = Min(PULSE_ENERGY_MAX, @ + PULSE_GAIN_ON_HIT),
                          !.kills_this_stage = @ + 1]
        b  == maybe_spawn_special(a, e.x, e.y, Roll(rnd, c.k + 1), rnd)
    IN  [g |-> check_stage_progression(b, rnd), ev |-> Mark(c, i, "harpoon"), k |-> c.k + 1]

(* lines 771-781: a pulse hits enemy i *)
PulseOutcome(c, i, rnd) ==
    LET e  == c.g.enemies[i]
        p0 == reward_combo(c.g.player, 1)
        p  == [p0 EXCEPT !.score = @ + SCORE_UNIT * (80 + 20 * p0.combo)]
        a  == [c.g EXCEPT !.enemies[i].alive = FALSE,
                          !.player = p,
                          !.pulse_energy = Min(PULSE_ENERGY_MAX, @ + PULSE_GAIN_ON_HIT \div 2),
                          !.kills_this_stage = @ + 1]
        b  == maybe_spawn_special(a, e.x, e.y, Roll(rnd, c.k + 1), rnd)
    IN  [g |-> check_stage_progression(b, rnd), ev |-> Mark(c, i, "pulse"), k |-> c.k + 1]

(* lines 748-767: the harpoon loop of enemy i, broken at the first hit *)
HarpoonLoop(c, i, rnd) ==
    LET e == c.g.enemies[i]
        H == {j \in 1..Len(c.g.harpoons) :
                 c.g.harpoons[j].alive /\ e.alive /\ TouchesHarpoon(e, c.g.harpoons[j])}
    IN  IF H = {} THEN c
        ELSE HarpoonOutcome(c, i, CHOOSE j \in H : \A m \in H : j <= m, rnd)

(* lines 769-784: the pulse loop of enemy i, broken at the first hit *)
PulseLoop(c, i, rnd) ==
    LET e == c.g.enemies[i]
    IN  IF \E j \in 1..Len(c.g.pulses) :
               c.g.pulses[j].alive /\ e.alive /\ hit_by_pulse(e, c.g.pulses[j])
        THEN PulseOutcome(c, i, rnd)
        ELSE c

(* The iteration with the weapon loops ahead of the player test. *)
CollideEnemy_weapons_first(c, i, rnd) ==
    IF ~c.g.enemies[i].alive THEN c
    ELSE Only({IF d.g.enemies[i].alive /\ TouchesPlayer(d.g.enemies[i], d.g.player)
               THEN ContactOutcome(d, i) ELSE d :
               d \in {PulseLoop(h, i, rnd) : h \in {HarpoonLoop(c, i, rnd)}}})

(* lines 735-784: one iteration of the collision pass *)
CollideEnemy(c, i, rnd) ==
    LET e == c.g.enemies[i]
    IN  IF ~e.alive THEN c
        ELSE IF TouchesPlayer(e, c.g.player) THEN ContactOutcome(c, i)
        ELSE Only({PulseLoop(d, i, rnd) : d \in {HarpoonLoop(c, i, rnd)}})

RECURSIVE CollisionPass(_, _, _)
CollisionPass(c, i, rnd) ==
    IF i > Len(c.g.enemies) THEN c
    ELSE Only({CollisionPass(d, i + 1, rnd) : d \in {CollideEnemy(c, i, rnd)}})

(* lines 786-789: the purge *)
Purge(g) ==
    [g EXCEPT !.enemies = SelectAlive(@), !.pulses = SelectAlive(@),
              !.harpoons = SelectAlive(@), !.special_catches = SelectUncollected(@)]

(* lines 795-796: the buoy, when there is one and the player reaches it *)
BuoyReached(g) == g.buoy # NoBuoy /\ Buoy_collected_by(g.buoy[1], ANCHOR_X, Px(g.player.y))

StepBuoy(c) ==
    IF BuoyReached(c.g)
    THEN LET a == advance_stage(c.g)
         IN  [c EXCEPT !.g = a,
                       !.ev = [@ EXCEPT !.buoy_hit = TRUE, !.advanced = a.stage # c.g.stage]]
    ELSE c

(* The catches collected left in the collection, their flag set. *)
StepCatches_kept(g) ==
    LET taken == Cardinality({i \in 1..Len(g.special_catches) :
                     CatchTaken(g.special_catches[i], ANCHOR_X, Px(g.player.y))})
        stock == Min(Max(SPECIAL_MAX_STOCK, g.special_stock), g.special_stock + taken)
        after == [i \in 1..Len(g.special_catches) |->
                     SpecialCatch_collected_by(g.special_catches[i], ANCHOR_X, Px(g.player.y))]
    IN  [g EXCEPT !.special_stock = stock, !.special_catches = after]

(* lines 798-806: special catches are collected, then purged *)
StepCatches(g) ==
    LET taken == Cardinality({i \in 1..Len(g.special_catches) :
                     CatchTaken(g.special_catches[i], ANCHOR_X, Px(g.player.y))})
        stock == Min(Max(SPECIAL_MAX_STOCK, g.special_stock), g.special_stock + taken)
        after == [i \in 1..Len(g.special_catches) |->
                     SpecialCatch_collected_by(g.special_catches[i], ANCHOR_X, Px(g.player.y))]
    IN  [g EXCEPT !.special_stock = stock, !.special_catches = SelectUncollected(after)]

(* lines 874-885: the strike loop over the enemies, from enemy i on, n      *)
(* cleared so far                                                          *)
RECURSIVE StrikeLoop(_, _, _)
StrikeLoop(g, i, n) ==
    IF i > Len(g.enemies) \/ n >= STRIKE_MAX THEN [g |-> g, n |-> n]
    ELSE IF ~g.enemies[i].alive THEN StrikeLoop(g, i + 1, n)
    ELSE LET p0 == reward_combo(g.player, 2)
             p  == [p0 EXCEPT !.score = @ + SCORE_UNIT * (140 + 24 * p0.combo)]
         IN  Only({StrikeLoop(a, i + 1, n + 1) :
                      a \in {[g EXCEPT !.enemies[i].alive = FALSE, !.player = p,
                                       !.kills_this_stage = @ + 1]}})

(* _trigger_special_strike that leaves the stock as it is. *)
trigger_special_strike_free(g, rnd) ==
    Only({IF s.n > 0
          THEN LET b == check_stage_progression(s.g, rnd)
               IN  [g |-> [b EXCEPT !.pulses = Append(@, Pulse(ANCHOR_X, Px(b.player.y) - 10))],
                    n |-> s.n]
          ELSE s :
          s \in {StrikeLoop(g, 1, 0)}})

(* Game._trigger_special_strike *)
trigger_special_strike(g, rnd) ==
    Only({IF s.n > 0
          THEN LET b == check_stage_progression(s.g, rnd)
               IN  [g |-> [b EXCEPT !.pulses = Append(@, Pulse(ANCHOR_X, Px(b.player.y) - 10))],
                    n |-> s.n]
          ELSE s :
          s \in {StrikeLoop(a, 1, 0) : a \in {[g EXCEPT !.special_stock = Max(0, @ - 1)]}}})

(* The special intent kept for a later tick when there is no stock. *)
StepSpecial_queued(c, rnd) ==
    IF c.g.pending_special /\ c.g.special_stock > 0
    THEN Only({[c EXCEPT !.g = [s.g EXCEPT !.pending_special = FALSE],
                         !.ev = [@ EXCEPT !.strike = TRUE, !.strike_kills = s.n]] :
               s \in {trigger_special_strike(c.g, rnd)}})
    ELSE c

(* lines 812-814 *)
StepSpecial(c, rnd) ==
    IF c.g.pending_special /\ c.g.special_stock > 0
    THEN Only({[c EXCEPT !.g = [s.g EXCEPT !.pending_special = FALSE],
                         !.ev = [@ EXCEPT !.strike = TRUE, !.strike_kills = s.n]] :
               s \in {trigger_special_strike(c.g, rnd)}})
    ELSE [c EXCEPT !.g = [@ EXCEPT !.pending_special = FALSE]]

(* The idle decay already at COMBO_IDLE rather than past it. *)
StepComboAndState_eager(c) ==
    LET p     == c.g.player
        decay == p.last_combo_time >= COMBO_IDLE /\ p.combo > 0
        q     == IF decay
                 THEN [p EXCEPT !.combo = Max(0, @ - 1), !.last_combo_time = 0]
                 ELSE p
    IN  [c EXCEPT !.g = [@ EXCEPT !.player = q,
                                  !.state = IF q.health <= 0 /\ @ # "game_over"
                                            THEN "game_over" ELSE @],
                  !.ev = [@ EXCEPT !.idle = p.last_combo_time, !.decayed = decay]]

(* lines 816-821: the idle decay of combo, then the game-over test *)
StepComboAndState(c) ==
    LET p     == c.g.player
        decay == p.last_combo_time > COMBO_IDLE /\ p.combo > 0
        q     == IF decay
                 THEN [p EXCEPT !.combo = Max(0, @ - 1), !.last_combo_time = 0]
                 ELSE p
    IN  [c EXCEPT !.g = [@ EXCEPT !.player = q,
                                  !.state = IF q.health <= 0 /\ @ # "game_over"
                                            THEN "game_over" ELSE @],
                  !.ev = [@ EXCEPT !.idle = p.last_combo_time, !.decayed = decay]]

(* lines 690-821: the simulation part of update *)
Simulate(g, dt, rnd) ==
    LET A  == {StepPlayerAndSpawn(w, dt, rnd) : w \in {StepWeapons(g, dt)}}
        B  == {[g  |-> b.g,
                ev |-> [EvNone EXCEPT !.ran = TRUE, !.dt = dt,
                                      !.fired = b.fired, !.pulsed = b.pulsed,
                                      !.spawned = b.spawned,
                                      !.dropped = Len(b.g.special_catches),
                                      !.dead_updated = b.dead,
                                      !.pre = PassFacts(b.g),
                                      !.hits = [i \in 1..Len(b.g.enemies) |-> {}],
                                      !.spent = Len(SelectAlive(b.g.harpoons))],
                k  |-> 0] :
                  b \in {[g |-> StepEntities(a, dt, rnd), dead |-> DeadCount(a.enemies),
                          fired |-> Len(a.harpoons) - Len(g.harpoons),
                          pulsed |-> Len(a.pulses) - Len(g.pulses),
                          spawned |-> Len(a.enemies) - Len(g.enemies)] : a \in A}}
        C1 == {[c EXCEPT !.ev.spent = @ - Len(SelectAlive(c.g.harpoons)),
                         !.ev.dropped = Len(c.g.special_catches) - @, !.g = Purge(@)] :
                  c \in {CollisionPass(b, 1, rnd) : b \in B}}
        C2 == {[c EXCEPT !.ev.caught = @ - Len(c.g.special_catches)] :
                  c \in {[b EXCEPT !.ev.caught = Len(b.g.special_catches), !.g = StepCatches(@)] :
                            b \in {StepBuoy(c1) : c1 \in C1}}}
        C4 == {StepComboAndState(c3) : c3 \in {StepSpecial(c2, rnd) : c2 \in C2}}
    IN  Only({[c EXCEPT !.ev.armed = c.g.awaiting_buoy /\ ~g.awaiting_buoy] : c \in C4})

ClearPending(g) ==
    [g EXCEPT !.pending_shot = FALSE, !.pending_pulse = FALSE, !.pending_special = FALSE]

(* Game.update with a stage banner timer that runs while paused. *)
update_banner_runs(g, dt, rnd) ==
    LET a == [g EXCEPT !.state_timer = @ + dt, !.space_age = Min(DOUBLE_TAP_WINDOW + 1, Max(@, @ + dt))]
        b == IF a.state = "intro" /\ a.state_timer > INTRO_DURATION
             THEN [a EXCEPT !.state = "gameplay"] ELSE a
        c == IF b.stage_banner_timer > 0
             THEN [b EXCEPT !.stage_banner_timer = Max(0, @ - dt)]
             ELSE b
        asked == g.pending_shot \/ g.pending_pulse \/ g.pending_special \/ g.jump_request # NoJump
    IN  Only({[r EXCEPT !.ev = [@ EXCEPT !.dt = dt, !.intents = asked,
                                         !.shot = g.pending_shot, !.pulse = g.pending_pulse,
                                         !.special = g.pending_special, !.jump = g.jump_request]] :
              r \in {IF b.state # "gameplay" THEN [g |-> ClearPending(b), ev |-> EvNone]
                     ELSE IF c.paused THEN [g |-> ClearPending(c), ev |-> EvNone]
                     ELSE Simulate(c, dt, rnd)}})

(* Game.update that leaves the intro already at 2.5 s. *)
update_early(g, dt, rnd) ==
    LET a == [g EXCEPT !.state_timer = @ + dt, !.space_age = Min(DOUBLE_TAP_WINDOW + 1, Max(@, @ + dt))]
        b == IF a.state = "intro" /\ a.state_timer >= INTRO_DURATION
             THEN [a EXCEPT !.state = "gameplay"] ELSE a
        c == IF b.stage_banner_timer > 0
             THEN [b EXCEPT !.stage_banner_timer = Max(0, @ - (IF b.paused THEN 0 ELSE dt))]
             ELSE b
        asked == g.pending_shot \/ g.pending_pulse \/ g.pending_special \/ g.jump_request # NoJump
    IN  Only({[r EXCEPT !.ev = [@ EXCEPT !.dt = dt, !.intents = asked,
                                         !.shot = g.pending_shot, !.pulse = g.pending_pulse,
                                         !.special = g.pending_special, !.jump = g.jump_request]] :
              r \in {IF b.state # "gameplay" THEN [g |-> ClearPending(b), ev |-> EvNone]
                     ELSE IF c.paused THEN [g |-> ClearPending(c), ev |-> EvNone]
                     ELSE Simulate(c, dt, rnd)}})

(* Game.update(dt): the new game and the history record of the step.       *)
(* space_age follows the wall clock, of which dt is the frame's share.     *)
update(g, dt, rnd) ==
    LET a == [g EXCEPT !.state_timer = @ + dt, !.space_age = Min(DOUBLE_TAP_WINDOW + 1, Max(@, @ + dt))]
        b == IF a.state = "intro" /\ a.state_timer > INTRO_DURATION
             THEN [a EXCEPT !.state = "gameplay"] ELSE a
        c == IF b.stage_banner_timer > 0
             THEN [b EXCEPT !.stage_banner_timer = Max(0, @ - (IF b.paused THEN 0 ELSE dt))]
             ELSE b
        asked == g.pending_shot \/ g.pending_pulse \/ g.pending_special \/ g.jump_request # NoJump
    IN  Only({[r EXCEPT !.ev = [@ EXCEPT !.dt = dt, !.intents = asked,
                                         !.shot = g.pending_shot, !.pulse = g.pending_pulse,
                                         !.special = g.pending_special, !.jump = g.jump_request]] :
              r \in {IF b.state # "gameplay" THEN [g |-> ClearPending(b), ev |-> EvNone]
                     ELSE IF c.paused THEN [g |-> ClearPending(c), ev |-> EvNone]
                     ELSE Simulate(c, dt, rnd)}})

-----------------------------------------------------------------------------
(* The state machine.                                                      *)

G ==
    [state |-> state, state_timer |-> state_timer, paused |-> paused,
     pending_shot |-> pending_shot, pending_pulse |-> pending_pulse,
     pending_special |-> pending_special, jump_request |-> jump_request,
     space_age |-> space_age,
     player |-> player, enemies |-> enemies, harpoons |-> harpoons, pulses |-> pulses,
     special_catches |-> special_catches, buoy |-> buoy, awaiting_buoy |-> awaiting_buoy,
     stage |-> stage, kills_this_stage |-> kills_this_stage, stage_goal |-> stage_goal,
     spawn_interval |-> spawn_interval, spawn_timer |-> spawn_timer,
     shoot_timer |-> shoot_timer, pulse_energy |-> pulse_energy,
     special_stock |-> special_stock,
     runtime |-> runtime, phase |-> phase, stage_banner_timer |-> stage_banner_timer]

(* The variables take the fields of the game g. *)
Becomes(g) ==
    /\ state' = g.state
    /\ state_timer' = g.state_timer
    /\ paused' = g.paused
    /\ pending_shot' = g.pending_shot
    /\ pending_pulse' = g.pending_pulse
    /\ pending_special' = g.pending_special
    /\ jump_request' = g.jump_request
    /\ space_age' = g.space_age
    /\ player' = g.player
    /\ enemies' = g.enemies
    /\ harpoons' = g.harpoons
    /\ pulses' = g.pulses
    /\ special_catches' = g.special_catches
    /\ buoy' = g.buoy
    /\ awaiting_buoy' = g.awaiting_buoy
    /\ stage' = g.stage
    /\ kills_this_stage' = g.kills_this_stage
    /\ stage_goal' = g.stage_goal
    /\ spawn_interval' = g.spawn_interval
    /\ spawn_timer' = g.spawn_timer
    /\ shoot_timer' = g.shoot_timer
    /\ pulse_energy' = g.pulse_energy
    /\ special_stock' = g.special_stock
    /\ runtime' = g.runtime
    /\ phase' = g.phase
    /\ stage_banner_timer' = g.stage_banner_timer

Starts(g) ==
    /\ state = g.state
    /\ state_timer = g.state_timer
    /\ paused = g.paused
    /\ pending_shot = g.pending_shot
    /\ pending_pulse = g.pending_pulse
    /\ pending_special = g.pending_special
    /\ jump_request = g.jump_request
    /\ space_age = g.space_age
    /\ player = g.player
    /\ enemies = g.enemies
    /\ harpoons = g.harpoons
    /\ pulses = g.pulses
    /\ special_catches = g.special_catches
    /\ buoy = g.buoy
    /\ awaiting_buoy = g.awaiting_buoy
    /\ stage = g.stage
    /\ kills_this_stage = g.kills_this_stage
    /\ stage_goal = g.stage_goal
    /\ spawn_interval = g.spawn_interval
    /\ spawn_timer = g.spawn_timer
    /\ shoot_timer = g.shoot_timer
    /\ pulse_energy = g.pulse_energy
    /\ special_stock = g.special_stock
    /\ runtime = g.runtime
    /\ phase = g.phase
    /\ stage_banner_timer = g.stage_banner_timer
    /\ ev = EvNone
    /\ frame = 0

(* The values `random` may return for one step at stage s. *)
RandomDraw(rnd, s) ==
    /\ rnd.n \in 3..WaveSizeMax(s)
    /\ rnd.spacing \in 22..40
    /\ rnd.base \in 2800..5200
    /\ Len(rnd.jitter) = rnd.n /\ \A i \in 1..rnd.n : rnd.jitter[i] \in 880..1120
    /\ Len(rnd.variants) = rnd.n
    /\ \A i \in 1..rnd.n : rnd.variants[i] \in {"standard", "hopper", "diver", "charger"}
    /\ rnd.wave_offset \in 0..TWO_PI
    /\ rnd.buoy_dx \in -40..40
    /\ rnd.buoy_phase \in 0..TWO_PI
    /\ rnd.catch_phase \in 0..TWO_PI
    /\ rnd.catch_offset \in -18..18
    /\ rnd.ticks \in 0..TWO_PI

(* handle_events, one action per event; Game.run calls update after the    *)
(* events of the frame.                                                    *)

(* K_SPACE *)
KeySpace ==
    /\ Becomes([G EXCEPT !.jump_request = IF space_age <= DOUBLE_TAP_WINDOW THEN "double" ELSE "single",
                         !.space_age = 0])
    /\ UNCHANGED <<ev, frame>>

(* K_w, K_UP *)
KeyUp ==
    /\ Becomes([G EXCEPT !.jump_request = "single"])
    /\ UNCHANGED <<ev, frame>>

(* K_f *)
KeySpecial ==
    /\ Becomes([G EXCEPT !.pending_special = TRUE])
    /\ UNCHANGED <<ev, frame>>

(* K_r with a reset that keeps the special stock. *)
KeyReset_keeps_stock ==
    /\ Becomes([NewGame EXCEPT !.special_stock = special_stock])
    /\ ev' = [EvNone EXCEPT !.reset = IF paused THEN "paused" ELSE state]
    /\ UNCHANGED frame

(* K_r: Game.reset *)
KeyReset ==
    /\ Becomes(NewGame)
    /\ ev' = [EvNone EXCEPT !.reset = IF paused THEN "paused" ELSE state]
    /\ UNCHANGED frame

(* K_RETURN starting the play from any state. *)
KeyReturn_anywhere ==
    /\ state # "gameplay"
    /\ Becomes([G EXCEPT !.state = "gameplay"])
    /\ UNCHANGED <<ev, frame>>

(* K_RETURN *)
KeyReturn ==
    /\ state = "intro"
    /\ Becomes([G EXCEPT !.state = "gameplay"])
    /\ UNCHANGED <<ev, frame>>

(* K_p, K_ESCAPE, left click on the pause button *)
TogglePause ==
    /\ Becomes([G EXCEPT !.paused = ~@])
    /\ UNCHANGED <<ev, frame>>

(* left click elsewhere *)
ClickFire ==
    /\ Becomes([G EXCEPT !.pending_shot = TRUE])
    /\ UNCHANGED <<ev, frame>>

(* right click *)
ClickPulse ==
    /\ Becomes([G EXCEPT !.pending_pulse = TRUE])
    /\ UNCHANGED <<ev, frame>>

(* Game.update(dt), the frame-th call of the run; at most bound calls are  *)
(* explored.                                                               *)
Tick(dt, rnd, bound) ==
    /\ frame < bound
    /\ RandomDraw(rnd, stage)
    /\ \E r \in {update(G, dt, rnd)} : Becomes(r.g) /\ ev' = r.ev
    /\ frame' = frame + 1

(* One iteration of Game.run: the left click, right click and K_f events   *)
(* of the frame, as told by shot, pulse and special, then update(dt).      *)
Frame(shot, pulse, special, dt, rnd, bound) ==
    /\ frame < bound
    /\ RandomDraw(rnd, stage)
    /\ LET g == [G EXCEPT !.pending_shot = @ \/ shot,
                          !.pending_pulse = @ \/ pulse,
                          !.pending_special = @ \/ special]
       IN  \E r \in {update(g, dt, rnd)} : Becomes(r.g) /\ ev' = r.ev
    /\ frame' = frame + 1

-----------------------------------------------------------------------------
(* Specification Spec: the game from its construction, every event and     *)
(* frames of length 0 and 1/60 s.                                          *)

MaxFrames == 3

(* The draws of the runs explored: waves of three enemies, the second      *)
(* faster than the first by what it starts behind, so that the two reach   *)
(* the player together.                                                    *)
Wave3 ==
    [n |-> 3, spacing |-> 22, base |-> 3500, jitter |-> <<1000, 1030, 1000>>,
     variants |-> <<"standard", "standard", "diver">>, wave_offset |-> 0,
     rolls |-> <<>>, buoy_dx |-> 0, buoy_phase |-> 0, catch_phase |-> 0,
     catch_offset |-> 0, ticks |-> 0]

(* Every kill of the step does (lucky) or does not drop a special catch.   *)
Draws == {[Wave3 EXCEPT !.rolls = [k \in 1..2 * STRIKE_MAX |-> lucky]] : lucky \in BOOLEAN}

FrameLengths == {0, 1}

Init == Starts(NewGame)

Next ==
    \/ KeySpace
    \/ KeyUp
    \/ KeySpecial
    \/ KeyReset
    \/ KeyReturn
    \/ TogglePause
    \/ ClickFire
    \/ ClickPulse
    \/ \E dt \in FrameLengths, rnd \in Draws : Tick(dt, rnd, MaxFrames)

Spec == Init /\ [][Next]_vars

-----------------------------------------------------------------------------
(* Specification SpecArena: play continued from the middle of a game.  An   *)
(* arena is a game that entered its stage, was left to itself for a few    *)
(* seconds (RETURN, then updates of length dt, no event), and has the      *)
(* counters of the play before: the kills of the stage, the buoy drifting  *)
(* in, health, combo, the harpoon, pulse and special strike ready.         *)

ArenaFrames == 3

RECURSIVE Replay(_, _, _, _)
Replay(g, k, dt, rnd) ==
    IF k = 0 THEN g
    ELSE Only({Replay(r.g, k - 1, dt, rnd) : r \in {update(g, dt, rnd)}})

(* The legs of a plan one after the other, each k updates of length dt. *)
RECURSIVE Runs(_, _)
Runs(g, plan) ==
    IF plan = <<>> THEN g
    ELSE Only({Runs(h, Tail(plan)) : h \in {Replay(g, Head(plan).k, Head(plan).dt, Wave3)}})

(* The spawn interval of stage s, as _advance_stage and                    *)
(* _check_stage_progression leave it.                                      *)
IntervalOf(s) ==
    IF s >= MAX_STAGE THEN SPAWN_FLOOR_LATE
    ELSE Max(SPAWN_FLOOR, ENEMY_SPAWN_EVERY - SPAWN_STEP * (s - 1))

(* Gameplay of stage s with the entities of a new game. *)
Opening(s) ==
    [NewGame EXCEPT !.state = "gameplay", !.stage = s, !.stage_goal = goal_for_stage(s),
                    !.spawn_interval = IntervalOf(s), !.stage_banner_timer = 0]

(* legs times 1/2 s of play in frames of 1/20 s, then k frames of 1/60 s,  *)
(* in legs of ten frames at most.                                          *)
Cruise(legs, k) ==
    [i \in 1..legs |-> [k |-> 10, dt |-> 3]]
        \o [i \in 1..(k \div 10) |-> [k |-> 10, dt |-> 1]]
        \o <<[k |-> k % 10, dt |-> 1]>>

(* The scenes of a cut [stage, legs, lead]: stage `stage` left to itself   *)
(* for the cruise of `legs` legs and lead or lead + 1 frames.              *)
Scenes(cut) == {Runs(Opening(cut.stage), Cruise(cut.legs, cut.lead + k)) : k \in {0, 1}}

(* The buoy of an arena that awaits it, d px right of the player. *)
BuoyAt(g, d) ==
    Buoy_update(Buoy(ANCHOR_X + d, WATERLINE, ANCHOR_X, 0), 0, g.phase, g.runtime)

(* The cuts: stage 1 when its first wave is about to reach the player      *)
(* (4.9 s), stage 1 when the first wave has passed and the second is about *)
(* to reach the player (6.1 s), and the late stages with their first waves *)
(* on the screen (2.1 s).                                                  *)
FirstWave == [stage |-> 1, legs |-> 9, lead |-> 25]
SecondWave == [stage |-> 1, legs |-> 12, lead |-> 4]
LateStage(s) == [stage |-> s, legs |-> 4, lead |-> 4]

(* The arenas: the cut, the kills of the stage, the distance of the buoy   *)
(* when the stage awaits it, and health.  Where health is what the cruise  *)
(* left, the iframes of the cruise stay; elsewhere they have run out.      *)
Progress ==
    {[cut |-> FirstWave, kills |-> 11, buoy |-> 0, health |-> 1],
     [cut |-> SecondWave, kills |-> 11, buoy |-> 0, health |-> 2],
     [cut |-> SecondWave, kills |-> 12, buoy |-> 26, health |-> 2],
     [cut |-> LateStage(9), kills |-> 44, buoy |-> 18, health |-> 2],
     [cut |-> LateStage(10), kills |-> 47, buoy |-> 0, health |-> 2]}

Arena(g, p) ==
    [g EXCEPT !.kills_this_stage = p.kills,
              !.awaiting_buoy = p.buoy > 0,
              !.buoy = IF p.buoy > 0 THEN <<BuoyAt(g, p.buoy)>> ELSE NoBuoy,
              !.player = [@ EXCEPT !.health = p.health,
                                   !.iframes = IF p.health = g.player.health THEN @ ELSE 0,
                                   !.combo = 3,
                                   !.best_combo = 3, !.last_combo_time = COMBO_IDLE - 2],
              !.shoot_timer = 0,
              !.pulse_energy = PULSE_ENERGY_MAX,
              !.special_stock = 1]

Arenas ==
    UNION {{Arena(g, p) : g \in Scenes(cut), p \in {q \in Progress : q.cut = cut}} :
              cut \in {p.cut : p \in Progress}}

InitArena == \E a \in Arenas : Starts(a)

(* Frames of 1/60 s with any of the three events, and empty frames of      *)
(* length 0.                                                               *)
NextArena ==
    \/ KeyReset
    \/ \E shot, pulse, special \in BOOLEAN, dt \in FrameLengths, rnd \in Draws :
        /\ dt = 0 => ~(shot \/ pulse \/ special)
        /\ Frame(shot, pulse, special, dt, rnd, ArenaFrames)

SpecArena == InitArena /\ [][NextArena]_vars

-----------------------------------------------------------------------------
(* Specification SpecPlay: the iterations of Game.run with the events of   *)
(* handle_events, from the new game and from arenas of stage 1, the latter *)
(* also with the harpoon one frame short of ready and the pulse energy one *)
(* frame short of full.                                                    *)

PlayFrames == 2

(* The game after handle_events has handled event e. *)
Handled(g, e) ==
    CASE e = "K_SPACE" ->
             [g EXCEPT !.jump_request = IF g.space_age <= DOUBLE_TAP_WINDOW THEN "double" ELSE "single",
                       !.space_age = 0]
      [] e = "K_UP" -> [g EXCEPT !.jump_request = "single"]
      [] e = "K_f" -> [g EXCEPT !.pending_special = TRUE]
      [] e = "click" -> [g EXCEPT !.pending_shot = TRUE]
      [] e = "right_click" -> [g EXCEPT !.pending_pulse = TRUE]
      [] OTHER -> g

(* One iteration of Game.run in which handle_events finds the event e (or  *)
(* none) and update(dt) follows.                                           *)
Round(e, dt, rnd, bound) ==
    /\ frame < bound
    /\ RandomDraw(rnd, stage)
    /\ \E r \in {update(Handled(G, e), dt, rnd)} : Becomes(r.g) /\ ev' = r.ev
    /\ frame' = frame + 1

Intents == {"none", "K_SPACE", "K_UP", "K_f", "click", "right_click"}

Reloading(a) == [a EXCEPT !.shoot_timer = 1, !.pulse_energy = PULSE_ENERGY_MAX - 2]

(* Stage 1 when the first two enemies of the first wave touch the player   *)
(* in the first or second frame to come, with one or two health points     *)
(* left; and when they have hit the player (health 2, iframes running) and *)
(* the third enemy touches it in the first or second frame to come.        *)
Contact == [stage |-> 1, legs |-> 9, lead |-> 27]
Straggler == [stage |-> 1, legs |-> 9, lead |-> 39]

Stage1 ==
    {Arena(g, [cut |-> Contact, kills |-> 11, buoy |-> 0, health |-> h]) :
        g \in Scenes(Contact), h \in {1, 2}}
    \cup {Arena(g, [cut |-> Straggler, kills |-> 11, buoy |-> 0, health |-> 2]) :
              g \in Scenes(Straggler)}

InitPlay == \E a \in {NewGame} \cup Stage1 \cup {Reloading(a) : a \in Stage1} : Starts(a)

NextPlay ==
    \/ KeyReset
    \/ KeyReturn
    \/ TogglePause
    \/ \E e \in Intents, dt \in FrameLengths : Round(e, dt, Wave3, PlayFrames)

SpecPlay == InitPlay /\ [][NextPlay]_vars

-----------------------------------------------------------------------------
(* Specification SpecCalls: Game.update called on the arenas with any dt:  *)
(* a negative one (Game.run, whose dt is the time the clock measured,      *)
(* never passes one), 0, 1/60 s, and the dt of a frame that stalled for    *)
(* more than a second.                                                     *)

CallFrames == 3

CallLengths == {-1, 0, 1, FPS + 4}

InitCalls == \E a \in Arenas \cup Stage1 : Starts(a)

NextCalls == \E dt \in CallLengths, rnd \in Draws : Tick(dt, rnd, CallFrames)

SpecCalls == InitCalls /\ [][NextCalls]_vars

-----------------------------------------------------------------------------
(* Specification SpecRelic: late play of stage 1.  The arenas are the lull  *)
(* before the first wave (no enemy on the screen, a special strike in      *)
(* stock) and the second wave coming in on a player whose combo is one     *)
(* short of its cap, whose special stock is at or one short of its cap,    *)
(* and who has two special catches drifting in, one from either side; and *)
(* such a player in stage 9, its first waves on the screen and the buoy    *)
(* drifting in; and the second wave coming in on a pulse the player        *)
(* triggered four frames before.                                           *)

RelicFrames == 3

Lull == [stage |-> 1, legs |-> 0, lead |-> 4]

(* A special catch d px right of the player, as its update places it. *)
CatchAt(g, d) ==
    SpecialCatch_update(SpecialCatch((ANCHOR_X + d) * SUB, WATERLINE, 0, 0), 0,
                        g.phase, g.runtime, ANCHOR_X)

Veteran(a, stock) ==
    [a EXCEPT !.special_stock = stock,
              !.special_catches = <<CatchAt(a, 26), CatchAt(a, -21)>>,
              !.player = [@ EXCEPT !.combo = COMBO_MAX - 1, !.best_combo = COMBO_MAX - 1]]

(* The arena a frames after the player triggered a pulse. *)
Pulsing(a, frames) ==
    [a EXCEPT !.pulses = <<Pulse_update(Pulse(ANCHOR_X, Px(a.player.y)), frames)>>,
              !.pulse_energy = 2 * frames]

Relics ==
    {Arena(g, [cut |-> Lull, kills |-> 11, buoy |-> 0, health |-> 2]) : g \in Scenes(Lull)}
    \cup {Veteran(Arena(g, [cut |-> SecondWave, kills |-> 11, buoy |-> 0, health |-> 2]), stock) :
              g \in Scenes(SecondWave), stock \in {SPECIAL_MAX_STOCK - 1, SPECIAL_MAX_STOCK}}
    \cup {Veteran(Arena(g, [cut |-> LateStage(9), kills |-> 44, buoy |-> 18, health |-> 2]),
                   SPECIAL_MAX_STOCK) : g \in Scenes(LateStage(9))}
    \cup {Pulsing(Arena(g, [cut |-> SecondWave, kills |-> 11, buoy |-> 0, health |-> 2]), 4) :
              g \in Scenes(SecondWave)}

InitRelic == \E a \in Relics : Starts(a)

NextRelic ==
    \E shot, pulse, special \in BOOLEAN, dt \in FrameLengths, rnd \in Draws :
        /\ dt = 0 => ~(shot \/ pulse \/ special)
        /\ Frame(shot, pulse, special, dt, rnd, RelicFrames)

SpecRelic == InitRelic /\ [][NextRelic]_vars

-----------------------------------------------------------------------------
(* Specification SpecIntro: the run from its construction through the      *)
(* intro, in frames of 1/60 s and of 1/2 s, with RETURN, the pause toggle   *)
(* and reset.  Game.run calls update once per iteration for as long as the *)
(* program runs, whatever the state and the pause flag, which is the weak  *)
(* fairness of the tick.  The run is followed while it is in the intro and *)
(* for IntroFrames updates overall; resets are explored within the same    *)
(* IntroFrames updates.                                                    *)

IntroFrames == 3

IntroLengths == {1, FPS \div 2}

IntroTick ==
    \E dt \in IntroLengths :
        Tick(dt, Wave3, IF state = "intro" THEN frame + 1 ELSE IntroFrames)

NextIntro ==
    \/ frame < IntroFrames /\ KeyReset
    \/ KeyReturn
    \/ TogglePause
    \/ IntroTick

SpecIntro == Init /\ [][NextIntro]_vars /\ WF_vars(IntroTick)

-----------------------------------------------------------------------------
(* Specification SpecDrain: unpaused gameplay continued for as long as it   *)
(* takes the entities of its first DrainTime sixtieths of a second to      *)
(* leave.  Stage 1 with its first waves on the screen, in frames of 1/2 s: *)
(* until the game time DrainTime every frame may bring the fire, pulse and  *)
(* special intents; from then on the frames are empty, and the run is      *)
(* followed while a harpoon, a pulse or an enemy spawned by DrainTime is   *)
(* in its collection and the game is not over.  Game.run calls update in   *)
(* every iteration, which is the weak fairness of the step.               *)

DrainTime == 340

DrainLengths == {FPS \div 2}

(* The game time at which enemy e was spawned. *)
SpawnedAt(e) == runtime - e.t

EarlyEnemies == {i \in DOMAIN enemies : SpawnedAt(enemies[i]) <= DrainTime}

Draining == harpoons # <<>> \/ pulses # <<>> \/ EarlyEnemies # {}

DrainStep ==
    \E shot, pulse, special \in BOOLEAN, dt \in DrainLengths, rnd \in Draws :
        /\ state = "gameplay"
        /\ \/ runtime < DrainTime
           \/ ~(shot \/ pulse \/ special) /\ Draining
        /\ Frame(shot, pulse, special, dt, rnd, frame + 1)

InitDrain ==
    \E a \in {Arena(g, [cut |-> FirstWave, kills |-> 0, buoy |-> 0, health |-> STARTING_HEALTH]) :
                 g \in Scenes(FirstWave)} : Starts(a)

SpecDrain == InitDrain /\ [][DrainStep]_vars /\ WF_vars(DrainStep)

-----------------------------------------------------------------------------
(* Properties.  A step that raises frame is a call of update (a tick); the  *)
(* history record ev of the state it leads to tells what that call did.    *)
(* The other steps are events.                                             *)

UpdateStep == frame' = frame + 1

Outcome(i, what) == i \in DOMAIN ev.hits /\ ev.hits[i] = {what}

(* C1: in every reachable state the player's health is an integer from 0   *)
(* to STARTING_HEALTH (3); contacts never drive it below 0.                *)
HealthInRange == player.health \in 0..STARTING_HEALTH

(* Two enemies touched the player in the tick that took the last health.   *)
LastHealthTwoContacts ==
    /\ ev.damaged
    /\ player.health = 0
    /\ \E i, j \in DOMAIN ev.hits : i # j /\ Outcome(i, "contact") /\ Outcome(j, "contact")

(* C2: the top-level state is game_over exactly when health is 0, at the   *)
(* end of every tick.                                                      *)
GameOverIffNoHealth == (state = "game_over") <=> (player.health = 0)

(* The tick in which the damage was dealt ended in game_over. *)
GameOverInDamageTick == ev.ran /\ ev.damaged /\ state = "game_over"

(* A reset, as far as the progression goes. *)
ResetStep == frame' = frame /\ state' = "intro" /\ stage' = 1 /\ kills_this_stage' = 0

KillsWithinGoal ==
    /\ kills_this_stage <= stage_goal
    /\ awaiting_buoy => kills_this_stage = stage_goal

(* A strike of STRIKE_MAX kills took the counter past the quota. *)
StrikeOvershootClamped ==
    /\ ev.strike /\ ev.strike_kills = STRIKE_MAX
    /\ awaiting_buoy /\ ev.armed
    /\ kills_this_stage = stage_goal

(* C5 as amended: the quota of stage N is 8 + 4N, and below MAX_STAGE (10) *)
(* kills_this_stage at the quota means that awaiting_buoy is true and a    *)
(* buoy exists.                                                            *)
QuotaArmsBuoyBelowMaxStage ==
    /\ stage_goal = 8 + 4 * stage
    /\ stage < MAX_STAGE /\ kills_this_stage >= stage_goal => awaiting_buoy /\ buoy # NoBuoy

(* A weapon kill, no strike, reached the quota and the buoy appeared. *)
BuoyArmedByWeaponKill ==
    /\ ev.armed /\ ~ev.strike
    /\ stage < MAX_STAGE /\ kills_this_stage = stage_goal
    /\ awaiting_buoy /\ buoy # NoBuoy

(* C5 as claimed: at every stage N >= 1, kills_this_stage at the quota     *)
(* 8 + 4N means that awaiting_buoy is true and a buoy exists.              *)
QuotaArmsBuoy ==
    /\ stage_goal = 8 + 4 * stage
    /\ kills_this_stage >= stage_goal => awaiting_buoy /\ buoy # NoBuoy

(* The enemies of the last collision pass that a harpoon cleared. *)
HarpoonOutcomes == {i \in DOMAIN ev.hits : "harpoon" \in ev.hits[i]}

(* The last tick scored no enemy: no harpoon or pulse outcome, no strike. *)
NothingScored == ~ev.strike /\ \A i \in DOMAIN ev.hits : ev.hits[i] \subseteq {"contact"}

(* C6, per enemy of the collision pass: at most one outcome; the contact   *)
(* with the player when the live enemy overlaps the player, whatever       *)
(* harpoon or pulse it overlaps too; none when it was not alive; and the   *)
(* pass clears as many harpoons as enemies were cleared by a harpoon.      *)
OneOutcomePerEnemy ==
    /\ DOMAIN ev.hits = DOMAIN ev.pre
    /\ \A i \in DOMAIN ev.pre :
          /\ Cardinality(ev.hits[i]) <= 1
          /\ ev.pre[i].alive /\ ev.pre[i].p => ev.hits[i] = {"contact"}
          /\ ~ev.pre[i].alive => ev.hits[i] = {}
    /\ ev.spent = Cardinality(HarpoonOutcomes)

(* C6, the gains: a tick whose only outcomes are player contacts gives     *)
(* combo, score, pulse energy and kills_this_stage nothing beyond the      *)
(* score and energy of the time passed.                                    *)
ContactGainsNothing ==
    [][UpdateStep /\ ev'.ran /\ NothingScored' =>
          /\ player'.combo <= player.combo
          /\ player'.score = player.score + ev'.dt * (50 + player.combo)
          /\ pulse_energy' <= Min(PULSE_ENERGY_MAX, pulse_energy + 2 * ev'.dt)
          /\ kills_this_stage' = (IF ev'.advanced THEN 0 ELSE kills_this_stage)]_vars

(* C6: an enemy that overlaps the player in a tick is resolved by contact   *)
(* alone, whatever harpoons and pulses overlap it too: each enemy gets at   *)
(* most one outcome per tick, and a tick whose only outcomes are contacts   *)
(* gives no combo, kill score, pulse energy or stage kill.                  *)
ContactTakesPrecedence == []OneOutcomePerEnemy /\ ContactGainsNothing

(* A live enemy overlapped the player, a live harpoon and a live pulse at  *)
(* once, and the tick scored nothing.                                      *)
TripleOverlapContactOnly ==
    /\ NothingScored
    /\ \E i \in DOMAIN ev.pre :
          /\ ev.pre[i].alive /\ ev.pre[i].p /\ ev.pre[i].h /\ ev.pre[i].u
          /\ ev.hits[i] = {"contact"}
    /\ harpoons # <<>>

(* C7: no tick calls the update of an enemy whose alive flag is false. *)
NoDeadEnemyUpdated == ev.dead_updated = 0

(* C8: at the end of every gameplay tick the enemies, harpoons and pulses  *)
(* are all alive and no special catch is collected.                        *)
OnlyLiveEntitiesAtTickEnd ==
    ev.ran =>
        /\ \A i \in DOMAIN enemies : enemies[i].alive
        /\ \A i \in DOMAIN harpoons : harpoons[i].alive
        /\ \A i \in DOMAIN pulses : pulses[i].alive
        /\ \A i \in DOMAIN special_catches : ~special_catches[i].collected

(* C9: over a tick, combo decreases only by a damaging contact, or by      *)
(* exactly 1 when the time since the last combo gain is past COMBO_IDLE    *)
(* (4.0 s) and combo > 0, and the idle timer is then 0.                    *)
ComboDecreasesOnlyByDamageOrIdle ==
    [][UpdateStep /\ player'.combo < player.combo /\ ~ev'.damaged =>
          /\ player'.combo = player.combo - 1
          /\ player.combo > 0
          /\ player.last_combo_time + ev'.dt > COMBO_IDLE
          /\ player'.last_combo_time = 0]_vars

(* The idle decay took one off the combo. *)
ComboDecayed == ev.decayed /\ ~ev.damaged /\ ev.idle > COMBO_IDLE /\ player.combo = 2

(* C10: a tick with dt = 0 and no intents changes nothing of the player,   *)
(* the enemies, the collections, the resources, the progression and the    *)
(* top-level state.                                                        *)
IdleTickChangesNothing ==
    [][UpdateStep /\ ev'.dt = 0 /\ ~ev'.intents =>
          UNCHANGED <<player, enemies, harpoons, pulses, special_catches, buoy,
                      pulse_energy, special_stock, shoot_timer,
                      stage, kills_this_stage, stage_goal, awaiting_buoy, spawn_interval,
                      state>>]_vars

(* The combo rewards of a step that follow its first contact: 1 per harpoon *)
(* or pulse outcome of a later enemy, 2 per enemy of the special strike.   *)
RewardsAfterContact ==
    LET first == CHOOSE i \in DOMAIN ev.hits :
                     /\ ev.hits[i] = {"contact"}
                     /\ \A j \in 1..(i - 1) : ev.hits[j] # {"contact"}
    IN  Cardinality({j \in DOMAIN ev.hits : j > first /\ ev.hits[j] \in {{"harpoon"}, {"pulse"}}})
            + 2 * ev.strike_kills

(* C11: health is lowered only by a contact of a tick whose iframes have    *)
(* run out (iframes <= 0 once Player.update has taken dt off): by exactly  *)
(* 1, with iframes set to 1.0 s and combo reset to 0 at the contact (the   *)
(* tick ends with the rewards that followed it).  While iframes > 0 a      *)
(* contact changes neither health nor combo nor iframes, which only the    *)
(* dt of a simulated tick takes down; so 1.0 s of unpaused time lies       *)
(* between two health losses.                                              *)
DamageOncePerIframeWindow ==
    [][/\ player'.health < player.health =>
            /\ UpdateStep /\ ev'.ran /\ ev'.damaged
            /\ (IF player.iframes > 0 THEN player.iframes - ev'.dt ELSE player.iframes) <= 0
            /\ player'.health = player.health - 1
            /\ player'.iframes = IFRAME_DURATION
            /\ player'.combo = Min(COMBO_MAX, RewardsAfterContact')
       /\ UpdateStep /\ ev'.ran /\ player.iframes > ev'.dt =>
            /\ ~ev'.damaged
            /\ player'.health = player.health
            /\ player'.iframes = player.iframes - ev'.dt
            /\ player'.combo >= player.combo - (IF ev'.decayed THEN 1 ELSE 0)
       /\ UpdateStep => (ev'.damaged <=> player'.health < player.health)
       /\ player'.iframes # player.iframes => ResetStep \/ (UpdateStep /\ ev'.ran)]_vars

(* C11 happens: an enemy touches the player while iframes > 0, after the   *)
(* contact that cost the third health point.                               *)
ContactDuringIframes ==
    /\ ev.ran /\ ~ev.damaged
    /\ player.health = 2 /\ player.iframes \in 1..(IFRAME_DURATION - 1)
    /\ \E i \in DOMAIN ev.hits : Outcome(i, "contact")

(* The pulse energy a simulated step e leaves when it creates no pulse: the *)
(* gain of the time dt and of the harpoon and pulse outcomes, up to the    *)
(* maximum.                                                                *)
EnergyGained(energy, e) ==
    Min(PULSE_ENERGY_MAX,
        energy + 2 * e.dt
            + PULSE_GAIN_ON_HIT * Cardinality({i \in DOMAIN e.hits : e.hits[i] = {"harpoon"}})
            + (PULSE_GAIN_ON_HIT \div 2) * Cardinality({i \in DOMAIN e.hits : e.hits[i] = {"pulse"}}))

(* C12: a tick that carries a fire intent and starts with a cooldown > 0   *)
(* adds no harpoon to the harpoons collection, for every dt >= 0.          *)
NoHarpoonDuringCooldown ==
    [][UpdateStep /\ ev'.shot /\ ev'.dt >= 0 /\ shoot_timer > 0 => ev'.fired = 0]_vars

(* C13: a tick that carries a pulse intent and starts with an energy below *)
(* PULSE_ENERGY_MAX creates no pulse from the intent and ends with the     *)
(* energy of the time and hit gains alone, for every dt >= 0.              *)
NoPulseBelowFullEnergy ==
    [][UpdateStep /\ ev'.pulse /\ ev'.dt >= 0 /\ pulse_energy < PULSE_ENERGY_MAX =>
           /\ ev'.pulsed = 0
           /\ pulse_energy' = IF ev'.ran THEN EnergyGained(pulse_energy, ev') ELSE pulse_energy]_vars

(* C14: a reset intent issued in any state yields the initial               *)
(* configuration: state intro, not paused, state timer 0, health 3, score  *)
(* 0, combo 0, stage 1, no kills, quota 12, no buoy awaited or present,     *)
(* spawn interval 1.25 s, pulse energy 60% of the maximum, shoot timer 0,  *)
(* special stock 0, no pending intent, and empty collections.              *)
ResetYieldsInitialConfiguration ==
    [][KeyReset =>
           /\ state' = "intro" /\ ~paused' /\ state_timer' = 0
           /\ player'.health = 3 /\ player'.score = 0 /\ player'.combo = 0
           /\ stage' = 1 /\ kills_this_stage' = 0 /\ stage_goal' = 12
           /\ ~awaiting_buoy' /\ buoy' = NoBuoy
           /\ 4 * spawn_interval' = 5 * FPS
           /\ 10 * pulse_energy' = 6 * PULSE_ENERGY_MAX
           /\ shoot_timer' = 0 /\ special_stock' = 0
           /\ ~pending_shot' /\ ~pending_pulse' /\ ~pending_special' /\ jump_request' = NoJump
           /\ enemies' = <<>> /\ harpoons' = <<>> /\ pulses' = <<>> /\ special_catches' = <<>>]_vars

(* C14 happens: the game is reset after it was over. *)
ResetAfterGameOver == ev.reset = "game_over" /\ state = "intro" /\ player.health = 3

(* C15: game_over is absorbing except for reset: every tick and every       *)
(* intent other than reset leaves the state game_over and the player, the   *)
(* clocks, the collections, the resources and the progression unchanged.    *)
GameOverAbsorbing ==
    [][state = "game_over" /\ ~KeyReset =>
           /\ state' = "game_over"
           /\ UNCHANGED <<player, runtime, phase, enemies, harpoons, pulses, special_catches, buoy,
                          pulse_energy, special_stock, shoot_timer, spawn_timer, spawn_interval,
                          stage, kills_this_stage, stage_goal, awaiting_buoy, stage_banner_timer>>]_vars

(* C15 happens: a tick of 1/60 s with an intent while the game is over. *)
GameOverTickWithIntent == state = "game_over" /\ ev.dt = 1 /\ ~ev.ran /\ ev.intents

(* C16: a tick in gameplay while paused leaves the clocks, the timers, the *)
(* resources, the player, every entity and the progression unchanged and   *)
(* creates no entity; the pause toggle and the reset still act while       *)
(* paused.                                                                 *)
PausedTickFreezes ==
    [][/\ UpdateStep /\ state = "gameplay" /\ paused =>
            UNCHANGED <<runtime, phase, spawn_timer, shoot_timer, pulse_energy, stage_banner_timer,
                        player, enemies, harpoons, pulses, special_catches, buoy, special_stock,
                        stage, kills_this_stage, stage_goal, awaiting_buoy, spawn_interval,
                        state, paused>>
       /\ TogglePause /\ paused => ~paused'
       /\ KeyReset /\ paused => ~paused' /\ state' = "intro" /\ enemies' = <<>>]_vars

(* C16 happens: a paused tick of 1/60 s with enemies on the screen and an  *)
(* intent pending.                                                         *)
PausedTickWithEnemies ==
    state = "gameplay" /\ paused /\ ev.dt = 1 /\ ~ev.ran /\ ev.intents /\ enemies # <<>>

(* C17: at the end of every tick pending_shot, pending_pulse and            *)
(* pending_special are false, an intent that the tick cannot satisfy        *)
(* included; so a harpoon, a pulse or a special strike comes only from an   *)
(* intent that reached the tick which creates it.                          *)
NoIntentOutlivesItsTick ==
    [][UpdateStep =>
           /\ ~pending_shot' /\ ~pending_pulse' /\ ~pending_special'
           /\ ev'.fired > 0 => ev'.shot
           /\ ev'.pulsed > 0 => ev'.pulse
           /\ ev'.strike => ev'.special]_vars

(* C17 happens: a simulated tick drops a special intent for lack of stock. *)
SpecialIntentDropped ==
    ev.ran /\ ev.special /\ ~ev.strike /\ special_stock = 0 /\ ~pending_special

(* C18: every intent (jump, fire, pulse, special) that arrives while the    *)
(* state is intro or game_over, or while paused, is discarded by the end of *)
(* that tick: a tick that does not simulate leaves no stored request.       *)
IdleTickDiscardsIntents ==
    [][UpdateStep /\ ~ev'.ran =>
           ~pending_shot' /\ ~pending_pulse' /\ ~pending_special' /\ jump_request' = NoJump]_vars

(* C19: a tick called with a negative dt is ignored or treated as dt = 0:   *)
(* it does not decrease runtime, phase, the state timer, the spawn timer    *)
(* or the score, does not increase the cooldown or the iframes, and moves   *)
(* no harpoon backwards.                                                   *)
NegativeDtIgnored ==
    [][UpdateStep /\ ev'.dt < 0 =>
           /\ runtime' >= runtime /\ phase' >= phase
           /\ state_timer' >= state_timer /\ spawn_timer' >= spawn_timer
           /\ player'.score >= player.score
           /\ shoot_timer' <= shoot_timer /\ player'.iframes <= player.iframes
           /\ Len(harpoons') = Len(harpoons) =>
                  \A i \in 1..Len(harpoons) : harpoons'[i].x >= harpoons[i].x]_vars

(* C20: a jump intent consumed by a simulated tick gives the player an      *)
(* upward impulse: Player.update with the jump request leaves a vertical    *)
(* velocity further up (smaller) than the same update without it.           *)
JumpGivesImpulse ==
    [][UpdateStep /\ ev'.ran /\ ev'.jump # NoJump =>
           Player_update(player, ev'.dt, phase', runtime', ev'.jump).vy
               < Player_update(player, ev'.dt, phase', runtime', NoJump).vy]_vars


(* The pulse energy the harpoon and pulse outcomes of a step e add. *)
HitEnergy(e) ==
    PULSE_GAIN_ON_HIT * Cardinality({i \in DOMAIN e.hits : e.hits[i] = {"harpoon"}})
        + (PULSE_GAIN_ON_HIT \div 2) * Cardinality({i \in DOMAIN e.hits : e.hits[i] = {"pulse"}})

(* C21: in every reachable state 0 <= pulse_energy <= PULSE_ENERGY_MAX,     *)
(* 0 <= shoot_timer <= HARPOON_COOLDOWN, 0 <= special_stock <=             *)
(* SPECIAL_MAX_STOCK and 0 <= combo <= 99; the pulse energy goes down only *)
(* in a tick that triggers a pulse, which takes a pulse intent and the     *)
(* energy at PULSE_ENERGY_MAX once the time gain is added, and sets it to  *)
(* 0, from where the hits of the tick raise it.                            *)
ResourcesWithinBounds ==
    /\ [](/\ pulse_energy \in 0..PULSE_ENERGY_MAX
          /\ shoot_timer \in 0..HARPOON_COOLDOWN
          /\ special_stock \in 0..SPECIAL_MAX_STOCK
          /\ player.combo \in 0..COMBO_MAX)
    /\ [][/\ pulse_energy' < pulse_energy => UpdateStep /\ ev'.pulsed = 1
          /\ UpdateStep /\ ev'.pulsed > 0 =>
                /\ ev'.pulse /\ ev'.pulsed = 1
                /\ Min(PULSE_ENERGY_MAX, pulse_energy + 2 * ev'.dt) = PULSE_ENERGY_MAX
                /\ pulse_energy' = Min(PULSE_ENERGY_MAX, HitEnergy(ev'))]_vars

(* A tick that triggered a pulse and left the energy at 0, with the stock  *)
(* at its cap after a catch.                                               *)
PulseTriggeredAtCaps ==
    /\ ev.pulsed = 1 /\ pulse_energy = 0
    /\ ev.caught >= 1 /\ special_stock = SPECIAL_MAX_STOCK

(* C22: a tick of length dt > 0 that starts with iframes >= 0 ends with    *)
(* iframes >= 0 (so that iframes >= 0 in every reachable state, whatever   *)
(* the sequence of tick lengths dt > 0), and iframes is set to its fixed    *)
(* duration only when it is not positive.                                  *)
IframesNeverNegative ==
    [][UpdateStep /\ ev'.dt > 0 /\ player.iframes >= 0 =>
          /\ player'.iframes >= 0
          /\ ev'.damaged => player.iframes - ev'.dt <= 0 /\ player'.iframes = IFRAME_DURATION]_vars

(* The account of combo and score over a simulated step e, kept apart from *)
(* the game: acc = [combo, score].  Scored: the outcome of enemy i of the   *)
(* collision pass (the first contact is the one that may damage).  Tally:  *)
(* the outcomes from enemy i on.  Struck: n kills of the special strike.   *)
Scored(e, i, acc) ==
    LET up == Min(COMBO_MAX, acc.combo + 1)
    IN  CASE e.hits[i] = {"contact"} ->
                 IF e.damaged /\ \A j \in 1..(i - 1) : e.hits[j] # {"contact"}
                 THEN [acc EXCEPT !.combo = 0] ELSE acc
          [] e.hits[i] = {"harpoon"} ->
                 [combo |-> up, score |-> acc.score + SCORE_UNIT * (60 + 16 * up)]
          [] e.hits[i] = {"pulse"} ->
                 [combo |-> up, score |-> acc.score + SCORE_UNIT * (80 + 20 * up)]
          [] OTHER -> acc

RECURSIVE Tally(_, _, _)
Tally(e, i, acc) ==
    IF i > Len(e.hits) THEN acc ELSE Tally(e, i + 1, Scored(e, i, acc))

RECURSIVE Struck(_, _)
Struck(n, acc) ==
    IF n = 0 THEN acc
    ELSE LET up == Min(COMBO_MAX, acc.combo + 2)
         IN  Struck(n - 1, [combo |-> up, score |-> acc.score + SCORE_UNIT * (140 + 24 * up)])

(* The account at the end of the step e that began with player p. *)
Account(p, e) ==
    Struck(e.strike_kills, Tally(e, 1, [combo |-> p.combo, score |-> p.score + e.dt * (50 + p.combo)]))

(* The enemies a harpoon or a pulse cleared in the step e. *)
WeaponKills(e) ==
    Cardinality({i \in DOMAIN e.hits : e.hits[i] \in {{"harpoon"}, {"pulse"}}})

(* C23: a special strike fires only in a gameplay tick with a special      *)
(* intent and special_stock > 0 (the stock after the catches of the tick); *)
(* it lowers the stock by exactly 1 and clears exactly the first           *)
(* min(4, number of live enemies) live enemies in collection order, each   *)
(* kill raising combo by 2 (capped at 99) and then awarding 140 + 24 x the *)
(* combo after that increase, and raising kills_this_stage by 1 before the *)
(* quota clamp.                                                            *)
SpecialStrikeClearsFirstFour ==
    [][UpdateStep =>
          LET stock == Min(SPECIAL_MAX_STOCK, special_stock + ev'.caught)
              kills == IF ev'.advanced THEN 0
                       ELSE Min(stage_goal, kills_this_stage + WeaponKills(ev'))
          IN  /\ ev'.strike <=> ev'.ran /\ ev'.special /\ stock > 0
              /\ special_stock' = IF ev'.strike THEN stock - 1 ELSE stock
              /\ ev'.strike_kills = IF ev'.strike THEN Min(STRIKE_MAX, Len(enemies')) ELSE 0
              /\ ev'.strike => \A i \in 1..Len(enemies') : enemies'[i].alive <=> i > ev'.strike_kills
              /\ ev'.strike =>
                    /\ player'.score = Account(player, ev').score
                    /\ player'.combo = Account(player, ev').combo - (IF ev'.decayed THEN 1 ELSE 0)
                    /\ kills_this_stage' = Min(stage_goal', kills + ev'.strike_kills)]_vars

(* A strike on more than four live enemies in the tick of a catch, with    *)
(* the combo at its cap.                                                   *)
StrikeOnCrowd ==
    /\ ev.strike /\ ev.strike_kills = STRIKE_MAX /\ Len(enemies) > STRIKE_MAX
    /\ ev.caught >= 1 /\ player.combo = COMBO_MAX

(* C24: every special strike that is triggered (stock consumed) adds one   *)
(* pulse centred near the player to the pulses collection, whatever the    *)
(* number of live enemies at that moment, zero included: the tick of the   *)
(* strike ends with that new pulse, 10 px above the player, as the last of *)
(* the collection.                                                         *)
EveryStrikeAddsPulse ==
    ev.strike => /\ pulses # <<>>
                 /\ pulses[Len(pulses)] = Pulse(ANCHOR_X, Px(player.y) - 10)

(* C25: collecting a special catch is one-shot.  In every state no catch of *)
(* special_catches has its collected flag set, and collected_by returns    *)
(* false for a catch whose flag is set; a simulated tick removes the       *)
(* catches it collected (every catch within reach of the player) from      *)
(* special_catches, and raises special_stock by 1 per catch collected, by   *)
(* 0 once the stock is at SPECIAL_MAX_STOCK (the special strike of the     *)
(* tick then takes its own 1 off); no other step changes either.           *)
CatchIsOneShot ==
    /\ [](\A i \in DOMAIN special_catches :
             /\ ~special_catches[i].collected
             /\ ev.ran => ~CatchTaken(special_catches[i], ANCHOR_X, Px(player.y))
             /\ ~CatchTaken([special_catches[i] EXCEPT !.collected = TRUE], ANCHOR_X, Px(player.y))
             /\ SpecialCatch_collected_by([special_catches[i] EXCEPT !.collected = TRUE],
                                          ANCHOR_X, Px(player.y)).collected)
    /\ [][IF UpdateStep /\ ev'.ran
          THEN /\ Len(special_catches') = Len(special_catches) + ev'.dropped - ev'.caught
               /\ special_stock' + (IF ev'.strike THEN 1 ELSE 0)
                      = Min(SPECIAL_MAX_STOCK, special_stock + ev'.caught)
          ELSE UNCHANGED <<special_catches, special_stock>>]_vars

(* Two catches collected in one tick by a player whose stock was one short *)
(* of its cap or at it.                                                    *)
TwoCatchesAtCap ==
    ev.caught = 2 /\ ~ev.strike /\ special_stock = SPECIAL_MAX_STOCK /\ special_catches = <<>>

PulseOutcomes == {i \in DOMAIN ev.hits : "pulse" \in ev.hits[i]}

(* C26: a harpoon hit clears both the enemy and the harpoon: each enemy has *)
(* at most one outcome per tick, the pass clears as many live harpoons as  *)
(* enemies were cleared by a harpoon, and the harpoons it cleared are gone *)
(* when the tick ends, so one harpoon destroys at most one enemy and one   *)
(* enemy consumes at most one harpoon.  The hit raises combo by 1 (capped  *)
(* at 99), then awards 60 + 16 x the combo after that increase, adds       *)
(* PULSE_GAIN_ON_HIT to the pulse energy capped at the maximum and raises  *)
(* kills_this_stage by 1 before the quota clamp; a pulse hit does the same *)
(* with 80 + 20 x the combo and half the energy, and does not consume the  *)
(* pulse.                                                                  *)
HarpoonHitClearsOneEnemy ==
    /\ [](/\ \A i \in DOMAIN ev.hits : Cardinality(ev.hits[i]) <= 1
          /\ ev.spent = Cardinality(HarpoonOutcomes)
          /\ \A j \in DOMAIN harpoons : harpoons[j].alive)
    /\ [][UpdateStep /\ ev'.ran =>
              /\ Len(harpoons') <= Len(harpoons) + ev'.fired - ev'.spent
              /\ Len(pulses') >= Cardinality({j \in DOMAIN pulses :
                                     Pulse_update(pulses[j], ev'.dt).alive}) + ev'.pulsed
              /\ player'.score = Account(player, ev').score
              /\ player'.combo = Account(player, ev').combo - (IF ev'.decayed THEN 1 ELSE 0)
              /\ pulse_energy' = IF ev'.pulsed > 0 THEN Min(PULSE_ENERGY_MAX, HitEnergy(ev'))
                                 ELSE EnergyGained(pulse_energy, ev')
              /\ kills_this_stage' =
                     Min(stage_goal',
                         (IF ev'.advanced THEN 0
                          ELSE Min(stage_goal, kills_this_stage + WeaponKills(ev')))
                         + ev'.strike_kills)]_vars

(* A tick in which a harpoon cleared one enemy and a pulse another, the    *)
(* pulse still in the collection.                                          *)
HarpoonAndPulseKills ==
    Cardinality(HarpoonOutcomes) >= 1 /\ Cardinality(PulseOutcomes) >= 1 /\ pulses # <<>>

(* A tick in which a pulse cleared two enemies. *)
PulseClearsTwo == Cardinality(PulseOutcomes) >= 2 /\ pulses # <<>>

(* C27: within a tick all entity updates precede the spawning of new enemy *)
(* waves: the enemies a wave spawn of the tick created, the last of the    *)
(* enemies collection, end the tick as they were constructed, with their   *)
(* elapsed time at 0, on the waterline, at their spawn position right of   *)
(* the screen; their first update is that of the next tick.                *)
SpawnedEnemiesWaitForNextTick ==
    [][UpdateStep /\ ev'.spawned > 0 =>
          /\ ev'.spawned <= Len(enemies')
          /\ \A i \in (Len(enemies') - ev'.spawned + 1)..Len(enemies') :
                /\ enemies'[i].t = 0
                /\ enemies'[i].y = WATERLINE
                /\ enemies'[i].warning = ENEMY_WARNING
                /\ Px(enemies'[i].x) >= WIDTH + 50]_vars

(* C28: the spawn interval is at most the 1.25 s it starts at, never        *)
(* increases during a run, drops by 0.1 s per stage advance down to a      *)
(* single floor value (the 0.5 s of _advance_stage), and changes in no     *)
(* other step but a reset: once at the floor it keeps that value at every  *)
(* stage, the maximum tracked stage included.                              *)
SpawnIntervalSingleFloor ==
    /\ [](spawn_interval <= ENEMY_SPAWN_EVERY)
    /\ [][~ResetStep =>
             spawn_interval' = IF stage' # stage
                               THEN Max(SPAWN_FLOOR, spawn_interval - SPAWN_STEP)
                               ELSE spawn_interval]_vars

(* C29: the intro is left only for gameplay, and only by a tick that takes *)
(* the time accumulated since the last reset from at most 2.5 s to more    *)
(* than 2.5 s, or by the confirm intent (an event, which leaves the timer  *)
(* as it is); every tick that takes the time past 2.5 s leaves it; the     *)
(* intro is entered only by a reset; and under continued ticks with dt > 0 *)
(* the intro is always eventually left.                                    *)
IntroLeadsToGameplay ==
    /\ [][/\ state = "intro" /\ state' # "intro" =>
                /\ state' = "gameplay"
                /\ IF UpdateStep
                   THEN state_timer <= INTRO_DURATION /\ state_timer' > INTRO_DURATION
                   ELSE state_timer' = state_timer /\ ~ResetStep
          /\ state = "intro" /\ UpdateStep =>
                /\ ev'.dt > 0
                /\ state_timer' = state_timer + ev'.dt
                /\ state_timer' > INTRO_DURATION => state' # "intro"
          /\ state # "intro" /\ state' = "intro" => ResetStep]_vars
    /\ (state = "intro") ~> (state = "gameplay")

(* The intro left by the tick after the one that brought the timer to      *)
(* exactly 2.5 s, the game paused all the while.                           *)
IntroTimedOutPaused ==
    /\ state = "gameplay" /\ paused /\ ~ev.ran
    /\ state_timer = INTRO_DURATION + 1 /\ frame = 6

(* C30: paused is a sub-flag of gameplay only: in every reachable state    *)
(* paused is false whenever the state is intro or game_over, so a pause     *)
(* toggle issued outside gameplay leaves the flag as it is, and gameplay   *)
(* is never entered already paused.                                        *)
PausedOnlyInGameplay ==
    /\ [](state \in {"intro", "game_over"} => ~paused)
    /\ [][/\ state # "gameplay" /\ ~ResetStep => paused' = paused
          /\ state # "gameplay" /\ state' = "gameplay" => ~paused']_vars

(* The pulse that one update of dt brings to exactly the maximum radius.   *)
PulseAtRim(dt) ==
    Pulse_update([Pulse(ANCHOR_X, WATERLINE) EXCEPT
                     !.r = PULSE_RADIUS_MAX * SUB - (PULSE_GROWTH * dt * SUB) \div FPS], dt)

(* C31: under continued unpaused gameplay ticks with dt > 0 every enemy,   *)
(* harpoon and pulse is eventually removed from its collection: an update  *)
(* strictly lowers an enemy's x and keeps it exactly while x is not below  *)
(* -40, strictly raises a harpoon's x and keeps it exactly while x is not  *)
(* above WIDTH + 60, strictly grows a pulse's radius and keeps it exactly  *)
(* while the radius does not exceed PULSE_RADIUS_MAX (a pulse at exactly   *)
(* the maximum is still alive); no collection holds an entity beyond its   *)
(* limit after a tick; and the harpoons, the pulses and the enemies spawned by   *)
(* any given time are all eventually gone, unless the game ends first.     *)
EntitiesEventuallyLeave ==
    /\ [](\A dt \in DrainLengths :
             /\ \A i \in DOMAIN enemies :
                   /\ enemies[i].x >= -OFFSCREEN_X * SUB
                   /\ \A e \in {Enemy_update(enemies[i], dt, phase, runtime)} :
                         /\ e.x < enemies[i].x
                         /\ enemies[i].alive => (e.alive <=> e.x >= -OFFSCREEN_X * SUB)
             /\ \A i \in DOMAIN harpoons :
                   /\ harpoons[i].alive /\ harpoons[i].x <= (WIDTH + 60) * SUB
                   /\ \A h \in {Harpoon_update(harpoons[i], dt, 0)} :
                         h.x > harpoons[i].x /\ (h.alive <=> h.x <= (WIDTH + 60) * SUB)
             /\ \A i \in DOMAIN pulses :
                   /\ pulses[i].alive /\ pulses[i].r <= PULSE_RADIUS_MAX * SUB
                   /\ \A p \in {Pulse_update(pulses[i], dt)} :
                         p.r > pulses[i].r /\ (p.alive <=> p.r <= PULSE_RADIUS_MAX * SUB)
             /\ PulseAtRim(dt).r = PULSE_RADIUS_MAX * SUB /\ PulseAtRim(dt).alive)
    /\ (harpoons # <<>>) ~> (harpoons = <<>> \/ state # "gameplay")
    /\ (pulses # <<>>) ~> (pulses = <<>> \/ state # "gameplay")
    /\ (EarlyEnemies # {}) ~> (EarlyEnemies = {} \/ state # "gameplay")

(* The game still running when the last of the early enemies has crossed   *)
(* the left edge, no harpoon and no pulse left.                            *)
EarlyEnemiesAllGone ==
    /\ state = "gameplay" /\ runtime > DrainTime /\ ~Draining
    /\ ev.ran /\ ev.dt > 0
    /\ \E i \in DOMAIN ev.pre : ~ev.pre[i].alive

(* C32: the stage never exceeds MAX_STAGE (10): at stage 10 the gate is    *)
(* never armed and no buoy exists, so no step other than a reset changes   *)
(* the stage, and kills_this_stage stays clamped at the stage-10 quota of  *)
(* 48: never above it, and once there, there until a reset.                *)
StageNeverExceedsMax ==
    /\ goal_for_stage(MAX_STAGE) = 48
    /\ [](/\ stage <= MAX_STAGE
          /\ stage >= MAX_STAGE =>
                /\ ~awaiting_buoy /\ buoy = NoBuoy
                /\ stage_goal = goal_for_stage(MAX_STAGE)
                /\ kills_this_stage <= goal_for_stage(MAX_STAGE))
    /\ [][stage >= MAX_STAGE /\ ~ResetStep =>
             /\ stage' = stage /\ ~ev'.armed /\ ~ev'.advanced
             /\ kills_this_stage' >= kills_this_stage]_vars

(* At stage 10, one kill short of the quota, a special strike cleared more *)
(* than one enemy and the counter stopped at 48, no gate armed.            *)
StrikeAtMaxStage ==
    /\ stage = MAX_STAGE /\ ev.strike /\ ev.strike_kills >= 2
    /\ kills_this_stage = goal_for_stage(MAX_STAGE)
    /\ ~awaiting_buoy /\ buoy = NoBuoy

(* C33: awaiting_buoy is true if and only if a buoy exists: the buoy is    *)
(* created exactly in the step that arms the gate, and removed exactly in  *)
(* the steps that advance the stage or reset the game.                     *)
GateIffBuoy ==
    /\ [](awaiting_buoy <=> buoy # NoBuoy)
    /\ [][/\ (buoy = NoBuoy /\ buoy' # NoBuoy) <=> (~awaiting_buoy /\ awaiting_buoy')
          /\ (buoy = NoBuoy /\ buoy' # NoBuoy) <=> (UpdateStep /\ ev'.armed)
          /\ (buoy # NoBuoy /\ buoy' = NoBuoy) <=>
                /\ awaiting_buoy
                /\ \/ ResetStep
                   \/ UpdateStep /\ ev'.advanced /\ stage' = stage + 1
          /\ stage' # stage /\ ~ResetStep => buoy # NoBuoy /\ buoy' = NoBuoy]_vars

(* The player reached the buoy of stage 1: stage 2 began with the gate     *)
(* lowered and the buoy gone.                                              *)
BuoyCollectedGateCleared ==
    /\ ev.buoy_hit /\ ev.advanced /\ stage = 2
    /\ ~awaiting_buoy /\ buoy = NoBuoy
====
